---- MODULE Spec2Model ----
(***************************************************************************)
(* A model of the Monke interpreter (dr8co/monke): the lexer, the          *)
(* environment chain, the hash-key contract of the object system and the   *)
(* tree-walking evaluator.  Each subsystem has its own specification over  *)
(* the same variables; the variables of the other subsystems stay idle.    *)
(***************************************************************************)
EXTENDS Integers, Sequences, FiniteSets, TLC

VARIABLES
    \* lexer.Lexer
    input, position, readPosition, ch,
    \* the token the last NextToken call returned, and the number of calls
    tok, calls,
    \* every object.Environment allocated so far; an *Environment is an
    \* index into heap, NilEnv is the nil pointer
    heap,
    \* for each environment, the outer its constructor was called with and
    \* whether it was made before the first Set call
    madeWith,
    \* what the last Environment.Get call returned
    got,
    \* the number of Environment.Set calls made
    sets,
    \* the Integer, Boolean and String objects allocated so far, and the
    \* HashKey the last HashKey() call returned
    objs, key,
    \* the program given to Eval, the order in which this run ranges over a
    \* map, whether Eval has returned, the value it returned, the lines
    \* puts has written, and the logs of the Eval calls and of the function
    \* applications
    program, order, evalDone, evaluated, out, log, applied,
    \* the source text given to the parser, what ParseProgram and Errors
    \* returned for it, the texts Program.String() returned (one per call),
    \* and what they returned for the first of these texts
    source, parsed, printed, reparsed,
    \* the cells of the element slices allocated so far, the arrays made so
    \* far, the call of a built-in in progress, what it returned and the
    \* lines it wrote
    mem, made, ret, call, written,
    \* the driver that runs, the inputs it was given so far that had parse
    \* errors, the number of Eval calls it made, what it reported,
    \* and its exit code
    path, rejected, evalCalls, reported, exitCode,
    \* the REPL's model (the value of its text input, its history, evaluating,
    \* currentInput, multilineBuffer, isMultiline), the evaluation commands
    \* that run, the result messages they have sent, the number of lines
    \* typed, the last message given to Update and the command it returned
    textInput, history, evaluating, currentInput, multilineBuffer, isMultiline,
    cmds, msgs, typed, msg, cmd

lexVars == <<input, position, readPosition, ch, tok, calls>>

envVars == <<heap, madeWith, got, sets>>

hashVars == <<objs, key>>

evalVars == <<program, order, evalDone, evaluated, out, log, applied>>

parseVars == <<source, parsed, printed, reparsed>>

builtinVars == <<mem, made, ret, call, written>>

driverVars == <<path, rejected, evalCalls, reported, exitCode>>

replVars ==
    <<textInput, history, evaluating, currentInput, multilineBuffer, isMultiline,
      cmds, msgs, typed, msg, cmd>>

moreVars == <<parseVars, builtinVars, driverVars, replVars>>

vars ==
    <<input, position, readPosition, ch, tok, calls, heap, madeWith, got, sets,
      objs, key, program, order, evalDone, evaluated, out, log, applied,
      source, parsed, printed, reparsed, mem, made, ret, call, written,
      path, rejected, evalCalls, reported, exitCode,
      textInput, history, evaluating, currentInput, multilineBuffer, isMultiline,
      cmds, msgs, typed, msg, cmd>>

(***************************************************************************)
(* Bounds                                                                  *)
(***************************************************************************)
\* longest source text given to lexer.New
MaxLen == 3
\* most environments enclosed over another in one run of the environment
\* machine, and most Set calls made in it
MaxEnclosed == 2
MaxSets == 2
\* most hashable objects allocated in one run of the hash-key machine
MaxObjs == 3
\* deepest nesting of blocks around a statement, and most pairs of a hash
\* literal, in the programs given to Eval
MaxDepth == 2
MaxPairs == 2

(***************************************************************************)
(* Go's nil: of an object.Object, and of an *ast.BlockStatement (the       *)
(* Alternative of an if without else).  Every value carries its variant in *)
(* the field kind, every node in the field node.                           *)
(***************************************************************************)
NilObj == [kind |-> "nil"]
NoBlock == [node |-> "nil"]

(***************************************************************************)
(* token: kinds and the keyword table.  A string is a sequence of bytes.   *)
(***************************************************************************)
ILLEGAL == "ILLEGAL"
EOF == "EOF"
IDENT == "IDENT"
INT == "INT"
\* token.STRING (STRING is a TLA+ keyword)
STRING_TOK == "STRING"
ASSIGN == "="
BANG == "!"
EQ == "=="
NOT_EQ == "!="

Token(type, literal) == [Type |-> type, Literal |-> literal]

\* "fn" "let" "true" "false" "if" "else" "return", as bytes
keywords ==
    (<<102, 110>> :> "FUNCTION")
    @@ (<<108, 101, 116>> :> "LET")
    @@ (<<116, 114, 117, 101>> :> "TRUE")
    @@ (<<102, 97, 108, 115, 101>> :> "FALSE")
    @@ (<<105, 102>> :> "IF")
    @@ (<<101, 108, 115, 101>> :> "ELSE")
    @@ (<<114, 101, 116, 117, 114, 110>> :> "RETURN")

LookupIdent(ident) ==
    IF ident \in DOMAIN keywords THEN keywords[ident] ELSE IDENT

(***************************************************************************)
(* lexer                                                                   *)
(***************************************************************************)
\* the one-byte tokens of NextToken's switch: + - / * < > ; : , ( ) { } [ ]
singleCharTokens ==
    (43 :> "+") @@ (45 :> "-") @@ (47 :> "/") @@ (42 :> "*")
    @@ (60 :> "<") @@ (62 :> ">") @@ (59 :> ";") @@ (58 :> ":")
    @@ (44 :> ",") @@ (40 :> "(") @@ (41 :> ")") @@ (123 :> "{")
    @@ (125 :> "}") @@ (91 :> "[") @@ (93 :> "]")

tokenEOF == Token(EOF, <<>>)

\* Go's string(b) for a byte b: the UTF-8 encoding of the code point b
ByteToString(b) ==
    IF b < 128 THEN <<b>> ELSE <<192 + (b \div 64), 128 + (b % 64)>>

\* Go's s[a:b] (0-based, half-open)
Slice(s, a, b) == SubSeq(s, a + 1, b)

LexerOf(in, p, rp, c) ==
    [input |-> in, position |-> p, readPosition |-> rp, ch |-> c]

\* a bug: the read-ahead position stops at the end of the input
readCharClamped(l) ==
    [l EXCEPT
        !.ch = IF l.readPosition >= Len(l.input)
               THEN 0
               ELSE l.input[l.readPosition + 1],
        !.position = l.readPosition,
        !.readPosition = IF l.readPosition >= Len(l.input)
                         THEN l.readPosition
                         ELSE l.readPosition + 1]

readChar(l) ==
    [l EXCEPT
        !.ch = IF l.readPosition >= Len(l.input)
               THEN 0
               ELSE l.input[l.readPosition + 1],
        !.position = l.readPosition,
        !.readPosition = l.readPosition + 1]

New(in) == readChar(LexerOf(in, 0, 0, 0))

isLetter(c) ==
    \/ 97 <= c /\ c <= 122
    \/ 65 <= c /\ c <= 90
    \/ c = 95

isDigit(c) == 48 <= c /\ c <= 57

peekChar(l) ==
    IF l.readPosition >= Len(l.input) THEN 0 ELSE l.input[l.readPosition + 1]

RECURSIVE skipWhitespace(_)
skipWhitespace(l) ==
    IF l.ch \in {32, 9, 10, 13} THEN skipWhitespace(readChar(l)) ELSE l

RECURSIVE identifierEnd(_)
identifierEnd(l) == IF isLetter(l.ch) THEN identifierEnd(readChar(l)) ELSE l

readIdentifier(l) ==
    LET e == identifierEnd(l)
    IN  [literal |-> Slice(l.input, l.position, e.position), l |-> e]

RECURSIVE numberEnd(_)
numberEnd(l) == IF isDigit(l.ch) THEN numberEnd(readChar(l)) ELSE l

readNumber(l) ==
    LET e == numberEnd(l)
    IN  [literal |-> Slice(l.input, l.position, e.position), l |-> e]

RECURSIVE stringEnd(_)
stringEnd(l) ==
    LET n == readChar(l)
    IN  IF n.ch = 34 \/ n.ch = 0 THEN n ELSE stringEnd(n)

readString(l) ==
    LET e == stringEnd(l)
    IN  [literal |-> Slice(l.input, l.position + 1, e.position), l |-> e]

\* a bug: the end of the input is not told from an illegal byte
eofCaseIllegal(l) == [tok |-> Token(ILLEGAL, ByteToString(l.ch)), l |-> l]

\* a bug: the end-of-input case advances like every other case
eofCaseAdvancing(l) == [tok |-> Token(EOF, <<>>), l |-> readChar(l)]

\* case 0 of NextToken's switch
eofCase(l) == [tok |-> tokenEOF, l |-> l]

\* case '=' and case '!' of NextToken's switch
twoCharCase(l, one, two) ==
    IF peekChar(l) = 61
    THEN [tok |-> Token(two, ByteToString(l.ch) \o ByteToString(61)),
          l |-> readChar(readChar(l))]
    ELSE [tok |-> Token(one, <<l.ch>>), l |-> readChar(l)]

\* a bug: the illegal byte is returned but not consumed
defaultCaseStuck(l) ==
    IF isLetter(l.ch)
    THEN LET r == readIdentifier(l)
         IN  [tok |-> Token(LookupIdent(r.literal), r.literal), l |-> r.l]
    ELSE IF isDigit(l.ch)
    THEN LET r == readNumber(l)
         IN  [tok |-> Token(INT, r.literal), l |-> r.l]
    ELSE [tok |-> Token(ILLEGAL, ByteToString(l.ch)), l |-> l]

\* the default case of NextToken's switch
defaultCase(l) ==
    IF isLetter(l.ch)
    THEN LET r == readIdentifier(l)
         IN  [tok |-> Token(LookupIdent(r.literal), r.literal), l |-> r.l]
    ELSE IF isDigit(l.ch)
    THEN LET r == readNumber(l)
         IN  [tok |-> Token(INT, r.literal), l |-> r.l]
    ELSE [tok |-> Token(ILLEGAL, ByteToString(l.ch)), l |-> readChar(l)]

NextToken(l0) ==
    LET l == skipWhitespace(l0)
    IN  CASE l.ch = 61 -> twoCharCase(l, ASSIGN, EQ)
          [] l.ch = 33 -> twoCharCase(l, BANG, NOT_EQ)
          [] l.ch \in DOMAIN singleCharTokens ->
                [tok |-> Token(singleCharTokens[l.ch], <<l.ch>>),
                 l |-> readChar(l)]
          [] l.ch = 34 ->
                LET r == readString(l)
                IN  [tok |-> Token(STRING_TOK, r.literal), l |-> readChar(r.l)]
          [] l.ch = 0 -> eofCase(l)
          [] OTHER -> defaultCase(l)

(***************************************************************************)
(* object: values                                                          *)
(***************************************************************************)
INTEGER_OBJ == "INTEGER"
BOOLEAN_OBJ == "BOOLEAN"
STRING_OBJ == "STRING"
NULL_OBJ == "NULL"
RETURN_VALUE_OBJ == "RETURN_VALUE"
ERROR_OBJ == "ERROR"
FUNCTION_OBJ == "FUNCTION"
BUILTIN_OBJ == "BUILTIN"
ARRAY_OBJ == "ARRAY"
HASH_OBJ == "HASH"

\* the nil Object and the nil *Environment
NilEnv == 0

Integer(v) == [kind |-> "Integer", Value |-> v]

Boolean(b) == [kind |-> "Boolean", Value |-> b]

\* the nil *HashKey of a String whose key is not cached yet
NilKey == [Type |-> "", Value |-> <<>>]

\* &String{Value: v}: the hashKey cache starts nil
String(v) == [kind |-> "String", Value |-> v, hashKey |-> NilKey]

\* a bug: (*Error).Type returns the tag of Null
TypeErrorMislabelled(obj) ==
    CASE obj.kind = "Integer" -> INTEGER_OBJ
      [] obj.kind = "Boolean" -> BOOLEAN_OBJ
      [] obj.kind = "String" -> STRING_OBJ
      [] obj.kind = "Null" -> NULL_OBJ
      [] obj.kind = "ReturnValue" -> RETURN_VALUE_OBJ
      [] obj.kind = "Error" -> NULL_OBJ
      [] obj.kind = "Function" -> FUNCTION_OBJ
      [] obj.kind = "Builtin" -> BUILTIN_OBJ
      [] obj.kind = "Array" -> ARRAY_OBJ
      [] obj.kind = "Hash" -> HASH_OBJ

\* the Type() methods
Type(obj) ==
    CASE obj.kind = "Integer" -> INTEGER_OBJ
      [] obj.kind = "Boolean" -> BOOLEAN_OBJ
      [] obj.kind = "String" -> STRING_OBJ
      [] obj.kind = "Null" -> NULL_OBJ
      [] obj.kind = "ReturnValue" -> RETURN_VALUE_OBJ
      [] obj.kind = "Error" -> ERROR_OBJ
      [] obj.kind = "Function" -> FUNCTION_OBJ
      [] obj.kind = "Builtin" -> BUILTIN_OBJ
      [] obj.kind = "Array" -> ARRAY_OBJ
      [] obj.kind = "Hash" -> HASH_OBJ

(***************************************************************************)
(* object: hash keys.  A uint64 is its eight bytes, least significant      *)
(* first, so that the arithmetic keeps its 64-bit width.                   *)
(***************************************************************************)
HashKey(type, value) == [Type |-> type, Value |-> value]

\* uint64(v) of an int64 v: the two's complement bytes, sign-extended
Uint64(v) ==
    [i \in 1..8 |->
        IF i <= 3 THEN (v \div (256 ^ (i - 1))) % 256
        ELSE IF i = 4 THEN (v \div 16777216) % 256
        ELSE IF v < 0 THEN 255 ELSE 0]

\* a ^ b on bytes
RECURSIVE XorByte(_, _)
XorByte(a, b) ==
    IF a = 0 /\ b = 0 THEN 0
    ELSE (IF a % 2 = b % 2 THEN 0 ELSE 1) + 2 * XorByte(a \div 2, b \div 2)

\* hash/fnv: offset64 = 14695981039346656037, prime64 = 1099511628211
fnvOffset64 == <<37, 35, 34, 132, 228, 156, 242, 203>>
fnvPrime64 == <<179, 1, 0, 0, 0, 1, 0, 0>>

\* digit k (from 1) of a * b before carrying
MulColumn(a, b, k) ==
    LET term[i \in 0..k] ==
            IF i = 0 THEN 0 ELSE term[i - 1] + a[i] * b[k + 1 - i]
    IN  term[k]

\* a * b modulo 2^64
RECURSIVE MulFrom(_, _, _, _)
MulFrom(a, b, k, carry) ==
    IF k > 8 THEN <<>>
    ELSE LET t == MulColumn(a, b, k) + carry
         IN  <<t % 256>> \o MulFrom(a, b, k + 1, t \div 256)

Mul64(a, b) == MulFrom(a, b, 1, 0)

\* fnv.New64a, Write(bytes), Sum64(): FNV-1a
RECURSIVE fnv64a(_, _)
fnv64a(h, bytes) ==
    IF bytes = <<>> THEN h
    ELSE fnv64a(Mul64([h EXCEPT ![1] = XorByte(@, Head(bytes))], fnvPrime64),
                Tail(bytes))

\* a bug: the key of a Boolean carries the Integer tag
BooleanHashKeyAsInteger(b) ==
    HashKey(INTEGER_OBJ, Uint64(IF b.Value THEN 1 ELSE 0))

BooleanHashKey(b) ==
    HashKey(Type(b), Uint64(IF b.Value THEN 1 ELSE 0))

IntegerHashKey(i) == HashKey(Type(i), Uint64(i.Value))

\* a bug: the key put in the cache is not the one returned
StringHashKeyCachesZero(s) ==
    IF s.hashKey # NilKey
    THEN [key |-> s.hashKey, self |-> s]
    ELSE LET hashKey == HashKey(Type(s), fnv64a(fnvOffset64, s.Value))
         IN  [key |-> hashKey,
              self |-> [s EXCEPT !.hashKey = HashKey(Type(s), Uint64(0))]]

\* the key returned and the String after the call (its cache filled)
StringHashKey(s) ==
    IF s.hashKey # NilKey
    THEN [key |-> s.hashKey, self |-> s]
    ELSE LET hashKey == HashKey(Type(s), fnv64a(fnvOffset64, s.Value))
         IN  [key |-> hashKey, self |-> [s EXCEPT !.hashKey = hashKey]]

\* Hashable.HashKey(): the key returned and the receiver after the call
HashKeyOf(obj) ==
    CASE obj.kind = "Boolean" -> [key |-> BooleanHashKey(obj), self |-> obj]
      [] obj.kind = "Integer" -> [key |-> IntegerHashKey(obj), self |-> obj]
      [] obj.kind = "String" -> StringHashKey(obj)

(***************************************************************************)
(* object: Environment                                                     *)
(***************************************************************************)
EmptyStore == [n \in {} |-> NilObj]

NewEnvironment(h) ==
    [h |-> Append(h, [store |-> EmptyStore, outer |-> NilEnv]),
     env |-> Len(h) + 1]

\* a bug: the new environment copies the bindings visible in outer instead
\* of keeping the reference
RECURSIVE Visible(_, _)
Visible(h, e) ==
    IF e = NilEnv THEN EmptyStore ELSE h[e].store @@ Visible(h, h[e].outer)

NewEnclosedEnvironmentSnapshot(h, outer) ==
    [h |-> Append(h, [store |-> Visible(h, outer), outer |-> NilEnv]),
     env |-> Len(h) + 1]

\* a bug: the new environment is left without its outer
NewEnclosedEnvironmentDetached(h, outer) == NewEnvironment(h)

NewEnclosedEnvironment(h, outer) ==
    LET r == NewEnvironment(h)
    IN  [h |-> [r.h EXCEPT ![r.env].outer = outer], env |-> r.env]

\* a bug: the outer environment is asked first, so outer bindings shadow
\* inner ones
RECURSIVE GetOuterFirst(_, _, _)
GetOuterFirst(h, e, name) ==
    LET up == IF h[e].outer # NilEnv
              THEN GetOuterFirst(h, h[e].outer, name)
              ELSE [obj |-> NilObj, ok |-> FALSE]
    IN  IF up.ok THEN up
        ELSE IF name \in DOMAIN h[e].store
        THEN [obj |-> h[e].store[name], ok |-> TRUE]
        ELSE [obj |-> NilObj, ok |-> FALSE]

RECURSIVE Get(_, _, _)
Get(h, e, name) ==
    LET found == name \in DOMAIN h[e].store
    IN  IF ~found /\ h[e].outer # NilEnv
        THEN Get(h, h[e].outer, name)
        ELSE [obj |-> IF found THEN h[e].store[name] ELSE NilObj,
              ok |-> found]

\* a bug: assignment semantics, a name bound in an outer frame is
\* overwritten there
RECURSIVE SetThrough(_, _, _, _)
SetThrough(h, e, name, val) ==
    IF name \notin DOMAIN h[e].store /\ h[e].outer # NilEnv
       /\ GetOuterFirst(h, h[e].outer, name).ok
    THEN SetThrough(h, h[e].outer, name, val)
    ELSE [h EXCEPT ![e].store = (name :> val) @@ @]

\* the heap after e.Set(name, val); the call returns val
Set(h, e, name, val) == [h EXCEPT ![e].store = (name :> val) @@ @]

(***************************************************************************)
(* ast: the nodes the evaluator walks                                      *)
(***************************************************************************)
Program(stmts) == [node |-> "Program", Statements |-> stmts]
LetStatement(name, value) ==
    [node |-> "LetStatement", Name |-> name, Value |-> value]
ReturnStatement(value) == [node |-> "ReturnStatement", ReturnValue |-> value]
ExpressionStatement(e) == [node |-> "ExpressionStatement", Expression |-> e]
BlockStatement(stmts) == [node |-> "BlockStatement", Statements |-> stmts]
Identifier(name) == [node |-> "Identifier", Value |-> name]
IntegerLiteral(v) == [node |-> "IntegerLiteral", Value |-> v]
BooleanLiteral(b) == [node |-> "Boolean", Value |-> b]
StringLiteral(v) == [node |-> "StringLiteral", Value |-> v]
PrefixExpression(op, right) ==
    [node |-> "PrefixExpression", Operator |-> op, Right |-> right]
InfixExpression(left, op, right) ==
    [node |-> "InfixExpression", Left |-> left, Operator |-> op, Right |-> right]
IfExpression(cond, cons, alt) ==
    [node |-> "IfExpression", Condition |-> cond, Consequence |-> cons,
     Alternative |-> alt]
FunctionLiteral(params, body) ==
    [node |-> "FunctionLiteral", Parameters |-> params, Body |-> body]
CallExpression(fn, args) ==
    [node |-> "CallExpression", Function |-> fn, Arguments |-> args]
ArrayLiteral(els) == [node |-> "ArrayLiteral", Elements |-> els]
IndexExpression(left, index) ==
    [node |-> "IndexExpression", Left |-> left, Index |-> index]
\* Pairs is a Go map: the pairs are kept in no particular order, and a range
\* over them visits them in an order the run chooses
HashLiteral(pairs) == [node |-> "HashLiteral", Pairs |-> pairs]

(***************************************************************************)
(* object: the other values                                                *)
(***************************************************************************)
NULL == [kind |-> "Null"]
TRUE_OBJ == Boolean(TRUE)
FALSE_OBJ == Boolean(FALSE)
ReturnValue(v) == [kind |-> "ReturnValue", Value |-> v]
\* the message is kept as its parts, in order
Error(parts) == [kind |-> "Error", Message |-> parts]
Function(params, body, env) ==
    [kind |-> "Function", Parameters |-> params, Body |-> body, Env |-> env]
Builtin(name) == [kind |-> "Builtin", Fn |-> name]
Array(els) == [kind |-> "Array", Elements |-> els]
HashPair(k, v) == [Key |-> k, Value |-> v]
\* Pairs maps HashKey to HashPair
Hash(pairs) == [kind |-> "Hash", Pairs |-> pairs]

\* the Inspect() methods; of an Error, a Function, an Array and a Hash, whose
\* texts are built from their parts, the variant alone
RECURSIVE Inspect(_)
Inspect(obj) ==
    CASE obj.kind = "Integer" -> ToString(obj.Value)
      [] obj.kind = "Boolean" -> IF obj.Value THEN "true" ELSE "false"
      [] obj.kind = "Null" -> "null"
      [] obj.kind = "String" -> obj.Value
      [] obj.kind = "ReturnValue" -> Inspect(obj.Value)
      [] obj.kind = "Builtin" -> "builtin function"
      [] OTHER -> obj.kind

(***************************************************************************)
(* evaluator.  Eval(node, env, st) returns the value and the state after   *)
(* the evaluation; st holds the environments, the output written by puts,  *)
(* the order in which maps are ranged over, the environment and depth of   *)
(* the Eval call in progress, a log of every Eval call that has returned   *)
(* (node, environment, value, nesting depth, number of bindings made and   *)
(* lines written so far) and a log of the function applications.           *)
(***************************************************************************)
isError(obj) == obj # NilObj /\ Type(obj) = ERROR_OBJ

isReturnValue(obj) == obj # NilObj /\ Type(obj) = RETURN_VALUE_OBJ

isTruthy(obj) ==
    CASE obj = NULL -> FALSE
      [] obj = TRUE_OBJ -> TRUE
      [] obj = FALSE_OBJ -> FALSE
      [] OTHER -> TRUE

nativeBoolToBooleanObject(b) == IF b THEN TRUE_OBJ ELSE FALSE_OBJ

builtinNames == {"len", "puts"}

\* env.Set(name, val) made by the evaluator
Bind(st, env, name, val) ==
    [st EXCEPT !.heap = Set(st.heap, env, name, val), !.binds = @ + 1]

evalIdentifier(node, env, st) ==
    LET r == Get(st.heap, env, node.Value)
    IN  IF r.ok THEN r.obj
        ELSE IF node.Value \in builtinNames THEN Builtin(node.Value)
        ELSE Error(<<"identifier not found: ", node.Value>>)

evalBangOperatorExpression(right) ==
    CASE right = TRUE_OBJ -> FALSE_OBJ
      [] right = FALSE_OBJ -> TRUE_OBJ
      [] right = NULL -> TRUE_OBJ
      [] OTHER -> FALSE_OBJ

evalMinusPrefixOperatorExpression(right) ==
    IF Type(right) # INTEGER_OBJ
    THEN Error(<<"unknown operator: -", Type(right)>>)
    ELSE Integer(0 - right.Value)

evalPrefixExpression(op, right) ==
    CASE op = "!" -> evalBangOperatorExpression(right)
      [] op = "-" -> evalMinusPrefixOperatorExpression(right)
      [] OTHER -> Error(<<"unknown operator: ", op, Type(right)>>)

evalIntegerInfixExpression(op, left, right) ==
    CASE op = "+" -> Integer(left.Value + right.Value)
      [] op = "-" -> Integer(left.Value - right.Value)
      [] op = "*" -> Integer(left.Value * right.Value)
      [] op = "<" -> nativeBoolToBooleanObject(left.Value < right.Value)
      [] op = ">" -> nativeBoolToBooleanObject(left.Value > right.Value)
      [] op = "==" -> nativeBoolToBooleanObject(left.Value = right.Value)
      [] op = "!=" -> nativeBoolToBooleanObject(left.Value # right.Value)
      [] OTHER -> Error(<<"unknown operator: ", Type(left), op, Type(right)>>)

evalStringInfixExpression(op, left, right) ==
    IF op # "+"
    THEN Error(<<"unknown operator: ", Type(left), op, Type(right)>>)
    ELSE String(left.Value \o right.Value)

evalInfixExpression(op, left, right) ==
    CASE Type(left) = INTEGER_OBJ /\ Type(right) = INTEGER_OBJ ->
            evalIntegerInfixExpression(op, left, right)
      [] Type(left) = STRING_OBJ /\ Type(right) = STRING_OBJ ->
            evalStringInfixExpression(op, left, right)
      [] Type(left) # Type(right) ->
            Error(<<"type mismatch: ", Type(left), op, Type(right)>>)
      [] op = "==" -> nativeBoolToBooleanObject(left = right)
      [] op = "!=" -> nativeBoolToBooleanObject(left # right)
      [] OTHER -> Error(<<"unknown operator: ", Type(left), op, Type(right)>>)

evalArrayIndexExpression(array, index) ==
    IF index.Value < 0 \/ index.Value > Len(array.Elements) - 1
    THEN NULL
    ELSE array.Elements[index.Value + 1]

isHashable(obj) == obj.kind \in {"Integer", "Boolean", "String"}

evalHashIndexExpression(hash, index) ==
    IF ~isHashable(index)
    THEN Error(<<"unusable as hash key: ", Type(index)>>)
    ELSE LET k == HashKeyOf(index).key
         IN  IF k \in DOMAIN hash.Pairs THEN hash.Pairs[k].Value ELSE NULL

evalIndexExpression(left, index) ==
    CASE Type(left) = ARRAY_OBJ /\ Type(index) = INTEGER_OBJ ->
            evalArrayIndexExpression(left, index)
      [] Type(left) = HASH_OBJ -> evalHashIndexExpression(left, index)
      [] OTHER -> Error(<<"index operator not supported: ", Type(left)>>)

unwrapReturnValue(obj) == IF isReturnValue(obj) THEN obj.Value ELSE obj

\* the built-in functions: the value returned and the lines written
RECURSIVE InspectAll(_)
InspectAll(args) ==
    IF args = <<>> THEN <<>> ELSE <<Inspect(Head(args))>> \o InspectAll(Tail(args))

builtinLen(args) ==
    IF Len(args) # 1
    THEN Error(<<"wrong number of arguments. got=", Len(args), ", want=", 1>>)
    ELSE CASE args[1].kind = "String" -> Integer(Len(args[1].Value))
           [] args[1].kind = "Array" -> Integer(Len(args[1].Elements))
           [] OTHER ->
                Error(<<"argument to ", "len", " not supported, got ",
                        Type(args[1])>>)

applyBuiltin(name, args, st) ==
    CASE name = "len" -> [val |-> builtinLen(args), st |-> st]
      [] name = "puts" ->
            [val |-> NULL, st |-> [st EXCEPT !.out = @ \o InspectAll(args)]]

\* the parameters that have an argument are bound, in order
RECURSIVE extendFunctionEnv(_, _, _, _, _)
extendFunctionEnv(st, env, params, args, i) ==
    IF i > Len(params) \/ i > Len(args) THEN st
    ELSE extendFunctionEnv(Bind(st, env, params[i].Value, args[i]),
                           env, params, args, i + 1)

\* the order in which a range over a map of n pairs visits them
RangeOrder(o, n) == SelectSeq(o, LAMBDA x : x <= n)

RECURSIVE Eval(_, _, _)
RECURSIVE evalProgram(_, _, _, _, _)
RECURSIVE evalBlockStatement(_, _, _, _, _)
RECURSIVE evalExpressions(_, _, _, _, _)
RECURSIVE evalHashLiteral(_, _, _, _, _)
RECURSIVE applyFunction(_, _, _)

\* statements i.. of a program; result is the value of the one before
evalProgram(stmts, i, env, st, result) ==
    IF i > Len(stmts) THEN [val |-> result, st |-> st]
    ELSE LET r == Eval(stmts[i], env, st)
         IN  IF isReturnValue(r.val) THEN [val |-> r.val.Value, st |-> r.st]
             ELSE IF isError(r.val) THEN r
             ELSE evalProgram(stmts, i + 1, env, r.st, r.val)

\* statements i.. of a block
evalBlockStatement(stmts, i, env, st, result) ==
    IF i > Len(stmts) THEN [val |-> result, st |-> st]
    ELSE LET r == Eval(stmts[i], env, st)
         IN  IF isReturnValue(r.val) \/ isError(r.val) THEN r
             ELSE evalBlockStatement(stmts, i + 1, env, r.st, r.val)

\* expressions i.., left to right; an Error is returned alone
evalExpressions(exps, i, env, st, result) ==
    IF i > Len(exps) THEN [val |-> result, st |-> st]
    ELSE LET r == Eval(exps[i], env, st)
         IN  IF isError(r.val) THEN [val |-> <<r.val>>, st |-> r.st]
             ELSE evalExpressions(exps, i + 1, env, r.st, Append(result, r.val))

\* the pairs of a hash literal, i-th and later in the order of the range
evalHashLiteral(node, i, env, st, pairs) ==
    IF i > Len(node.Pairs) THEN [val |-> Hash(pairs), st |-> st]
    ELSE LET pair == node.Pairs[RangeOrder(st.order, Len(node.Pairs))[i]]
             k == Eval(pair.Key, env, st)
         IN  IF isError(k.val) THEN k
             ELSE IF ~isHashable(k.val)
             THEN [val |-> Error(<<"unusable as hash key: ", Type(k.val)>>),
                   st |-> k.st]
             ELSE LET v == Eval(pair.Value, env, k.st)
                  IN  IF isError(v.val) THEN v
                      ELSE evalHashLiteral(node, i + 1, env, v.st,
                              (HashKeyOf(k.val).key :> HashPair(k.val, v.val))
                              @@ pairs)

applyFunction(fn, args, st) ==
    CASE Type(fn) = FUNCTION_OBJ ->
            LET ne == NewEnclosedEnvironment(st.heap, fn.Env)
                st1 == extendFunctionEnv([st EXCEPT !.heap = ne.h], ne.env,
                                         fn.Parameters, args, 1)
                r == Eval(fn.Body, ne.env, st1)
            IN  [val |-> unwrapReturnValue(r.val),
                 st |-> [r.st EXCEPT !.applied =
                            Append(@, [fnEnv |-> fn.Env, callEnv |-> ne.env,
                                       callerEnv |-> st.cur,
                                       params |-> fn.Parameters,
                                       args |-> args,
                                       before |-> st.heap,
                                       after |-> r.st.heap])]]
      [] Type(fn) = BUILTIN_OBJ -> applyBuiltin(fn.Fn, args, st)
      [] OTHER -> [val |-> Error(<<"not a function: ", Type(fn)>>), st |-> st]

\* the switch of Eval on the node's type
evalNode(node, env, st) ==
    CASE node.node = "Program" -> evalProgram(node.Statements, 1, env, st, NULL)
      [] node.node = "BlockStatement" ->
            evalBlockStatement(node.Statements, 1, env, st, NilObj)
      [] node.node = "ExpressionStatement" -> Eval(node.Expression, env, st)
      [] node.node = "ReturnStatement" ->
            LET r == Eval(node.ReturnValue, env, st)
            IN  IF isError(r.val) THEN r
                ELSE [val |-> ReturnValue(r.val), st |-> r.st]
      [] node.node = "LetStatement" ->
            LET r == Eval(node.Value, env, st)
            IN  IF isError(r.val) THEN r
                ELSE [val |-> NilObj,
                      st |-> Bind(r.st, env, node.Name.Value, r.val)]
      [] node.node = "IntegerLiteral" -> [val |-> Integer(node.Value), st |-> st]
      [] node.node = "StringLiteral" -> [val |-> String(node.Value), st |-> st]
      [] node.node = "Boolean" ->
            [val |-> nativeBoolToBooleanObject(node.Value), st |-> st]
      [] node.node = "Identifier" ->
            [val |-> evalIdentifier(node, env, st), st |-> st]
      [] node.node = "PrefixExpression" ->
            LET r == Eval(node.Right, env, st)
            IN  IF isError(r.val) THEN r
                ELSE [val |-> evalPrefixExpression(node.Operator, r.val),
                      st |-> r.st]
      [] node.node = "InfixExpression" ->
            LET l == Eval(node.Left, env, st)
            IN  IF isError(l.val) THEN l
                ELSE LET r == Eval(node.Right, env, l.st)
                     IN  IF isError(r.val) THEN r
                         ELSE [val |-> evalInfixExpression(node.Operator,
                                                           l.val, r.val),
                               st |-> r.st]
      [] node.node = "IfExpression" ->
            LET c == Eval(node.Condition, env, st)
            IN  IF isError(c.val) THEN c
                ELSE IF isTruthy(c.val) THEN Eval(node.Consequence, env, c.st)
                ELSE IF node.Alternative # NoBlock
                THEN Eval(node.Alternative, env, c.st)
                ELSE [val |-> NULL, st |-> c.st]
      [] node.node = "FunctionLiteral" ->
            [val |-> Function(node.Parameters, node.Body, env), st |-> st]
      [] node.node = "CallExpression" ->
            LET f == Eval(node.Function, env, st)
            IN  IF isError(f.val) THEN f
                ELSE LET a == evalExpressions(node.Arguments, 1, env, f.st, <<>>)
                     IN  IF Len(a.val) = 1 /\ isError(a.val[1])
                         THEN [val |-> a.val[1], st |-> a.st]
                         ELSE applyFunction(f.val, a.val, a.st)
      [] node.node = "ArrayLiteral" ->
            LET a == evalExpressions(node.Elements, 1, env, st, <<>>)
            IN  IF Len(a.val) = 1 /\ isError(a.val[1])
                THEN [val |-> a.val[1], st |-> a.st]
                ELSE [val |-> Array(a.val), st |-> a.st]
      [] node.node = "IndexExpression" ->
            LET l == Eval(node.Left, env, st)
            IN  IF isError(l.val) THEN l
                ELSE LET i == Eval(node.Index, env, l.st)
                     IN  IF isError(i.val) THEN i
                         ELSE [val |-> evalIndexExpression(l.val, i.val),
                               st |-> i.st]
      [] node.node = "HashLiteral" ->
            evalHashLiteral(node, 1, env, st, <<>>)
      \* no case of the switch matches a nil node
      [] node.node = "nil" -> [val |-> NilObj, st |-> st]

Eval(node, env, st) ==
    LET r == evalNode(node, env, [st EXCEPT !.depth = @ + 1, !.cur = env])
    IN  [val |-> r.val,
         st |-> [r.st EXCEPT
                    !.depth = st.depth,
                    !.cur = st.cur,
                    !.log = Append(@, [node |-> node, env |-> env,
                                       val |-> r.val, depth |-> st.depth,
                                       binds |-> r.st.binds,
                                       lines |-> Len(r.st.out)])]]

(***************************************************************************)
(* token: the other kinds (LET, TRUE, FALSE, IF and ELSE are TLA+ keywords) *)
(***************************************************************************)
PLUS == "+"
MINUS == "-"
ASTERISK == "*"
SLASH == "/"
LT == "<"
GT == ">"
COMMA == ","
COLON == ":"
SEMICOLON == ";"
LPAREN == "("
RPAREN == ")"
LBRACE == "{"
RBRACE == "}"
LBRACKET == "["
RBRACKET == "]"
FUNCTION == "FUNCTION"
LET_TOK == "LET"
TRUE_TOK == "TRUE"
FALSE_TOK == "FALSE"
IF_TOK == "IF"
ELSE_TOK == "ELSE"
RETURN == "RETURN"

\* the printable ASCII characters, from the space (32) to the tilde (126);
\* the quotes and the backslash, which no name or operator holds, are "?"
Chars ==
    <<" ", "!", "?", "#", "$", "%", "&", "?", "(", ")", "*", "+", ",", "-",
      ".", "/", "0", "1", "2", "3", "4", "5", "6", "7", "8", "9", ":", ";",
      "<", "=", ">", "?", "@", "A", "B", "C", "D", "E", "F", "G", "H", "I",
      "J", "K", "L", "M", "N", "O", "P", "Q", "R", "S", "T", "U", "V", "W",
      "X", "Y", "Z", "[", "?", "]", "^", "_", "?", "a", "b", "c", "d", "e",
      "f", "g", "h", "i", "j", "k", "l", "m", "n", "o", "p", "q", "r", "s",
      "t", "u", "v", "w", "x", "y", "z", "{", "|", "}", "~">>

\* the Go string with these bytes, as a TLA+ string (names and operators
\* are TLA+ strings in the evaluator); other bytes are shown as "?"
RECURSIVE GoString(_)
GoString(bytes) ==
    IF bytes = <<>> THEN ""
    ELSE (IF Head(bytes) \in 32..126 THEN Chars[Head(bytes) - 31] ELSE "?")
         \o GoString(Tail(bytes))

(***************************************************************************)
(* parser.  A Parser is its lexer, curToken, peekToken and errors; reads   *)
(* counts the tokens taken from the lexer, and when more than limit have   *)
(* been taken the parser is cut off: it is given EOF from then on.         *)
(* Every parse function returns the node (NilNode for nil) and the parser  *)
(* after it.                                                               *)
(***************************************************************************)
LOWEST == 1
EQUALS == 2
LESSGREATER == 3
SUM == 4
PRODUCT == 5
PREFIX == 6
CALL == 7
INDEX == 8

precedences ==
    (EQ :> EQUALS) @@ (NOT_EQ :> EQUALS) @@ (LT :> LESSGREATER)
    @@ (GT :> LESSGREATER) @@ (PLUS :> SUM) @@ (MINUS :> SUM)
    @@ (SLASH :> PRODUCT) @@ (ASTERISK :> PRODUCT) @@ (LPAREN :> CALL)
    @@ (LBRACKET :> INDEX)

prefixParseFns ==
    {IDENT, INT, STRING_TOK, BANG, MINUS, TRUE_TOK, FALSE_TOK, LPAREN, IF_TOK,
     FUNCTION, LBRACKET, LBRACE}

infixParseFns == {PLUS, MINUS, SLASH, ASTERISK, EQ, NOT_EQ, LT, GT, LPAREN, LBRACKET}

NilNode == NoBlock

\* the node with the token it was made from
WithToken(t, n) == [Token |-> t] @@ n

\* the element of a one-element set: The({ e(r) : r \in {v} }) is e of the value v
The(S) == CHOOSE e \in S : TRUE

nextToken(p) ==
    IF p.reads >= p.limit
    THEN [p EXCEPT !.curToken = p.peekToken, !.peekToken = tokenEOF, !.cut = TRUE]
    ELSE The({ [p EXCEPT !.curToken = p.peekToken, !.peekToken = r.tok,
                         !.l = r.l, !.reads = @ + 1]
               : r \in {NextToken(p.l)} })

NewParser(l, limit) ==
    nextToken(nextToken(
        [l |-> l, curToken |-> Token("", <<>>), peekToken |-> Token("", <<>>),
         errors |-> <<>>, reads |-> 0, limit |-> limit, cut |-> FALSE]))

curTokenIs(p, t) == p.curToken.Type = t

peekTokenIs(p, t) == p.peekToken.Type = t

peekError(p, t) ==
    [p EXCEPT !.errors =
        Append(@, <<"expected next token to be ", t, ", got ",
                    p.peekToken.Type, " instead">>)]

noPrefixParseFnError(p, t) ==
    [p EXCEPT !.errors = Append(@, <<"no prefix parse function for ", t, " found">>)]

expectPeek(p, t) ==
    IF peekTokenIs(p, t) THEN [ok |-> TRUE, p |-> nextToken(p)]
    ELSE [ok |-> FALSE, p |-> peekError(p, t)]

Precedence(t) == IF t \in DOMAIN precedences THEN precedences[t] ELSE LOWEST

peekPrecedence(p) == Precedence(p.peekToken.Type)

curPrecedence(p) == Precedence(p.curToken.Type)

\* strconv.ParseInt of a run of digits
RECURSIVE ParseInt(_)
ParseInt(digits) ==
    IF digits = <<>> THEN 0
    ELSE 10 * ParseInt(SubSeq(digits, 1, Len(digits) - 1))
         + (digits[Len(digits)] - 48)

Nil(p) == [node |-> NilNode, p |-> p]

parseIdentifier(p) ==
    [node |-> WithToken(p.curToken, Identifier(GoString(p.curToken.Literal))),
     p |-> p]

parseIntegerLiteral(p) ==
    [node |-> WithToken(p.curToken, IntegerLiteral(ParseInt(p.curToken.Literal))),
     p |-> p]

parseStringLiteral(p) ==
    [node |-> WithToken(p.curToken, StringLiteral(p.curToken.Literal)), p |-> p]

parseBoolean(p) ==
    [node |-> WithToken(p.curToken, BooleanLiteral(curTokenIs(p, TRUE_TOK))),
     p |-> p]

RECURSIVE parseStatement(_)
RECURSIVE parseExpression(_, _)
RECURSIVE parseInfixLoop(_, _, _)
RECURSIVE parseBlockStatement(_)
RECURSIVE parseStatements(_, _, _)
RECURSIVE parseExpressionList(_, _)
RECURSIVE parseMoreExpressions(_, _)
RECURSIVE parseHashPairs(_, _)

parsePrefixExpression(p) ==
    The({ [node |-> WithToken(p.curToken,
                      PrefixExpression(GoString(p.curToken.Literal), r.node)),
           p |-> r.p]
          : r \in {parseExpression(nextToken(p), PREFIX)} })

parseInfixExpression(p, left) ==
    The({ [node |-> WithToken(p.curToken,
                      InfixExpression(left, GoString(p.curToken.Literal), r.node)),
           p |-> r.p]
          : r \in {parseExpression(nextToken(p), curPrecedence(p))} })

parseGroupedExpression(p) ==
    The({ The({ IF x.ok THEN [node |-> e.node, p |-> x.p] ELSE Nil(x.p)
                : x \in {expectPeek(e.p, RPAREN)} })
          : e \in {parseExpression(nextToken(p), LOWEST)} })

\* the rest of parseIfExpression once the consequence is parsed
parseElse(p, c, cons) ==
    IF ~peekTokenIs(cons.p, ELSE_TOK)
    THEN [node |-> WithToken(p.curToken, IfExpression(c.node, cons.node, NoBlock)),
          p |-> cons.p]
    ELSE The({ IF ~x4.ok THEN Nil(x4.p)
               ELSE The({ [node |-> WithToken(p.curToken,
                                     IfExpression(c.node, cons.node, alt.node)),
                           p |-> alt.p]
                          : alt \in {parseBlockStatement(x4.p)} })
               : x4 \in {expectPeek(nextToken(cons.p), LBRACE)} })

\* the rest of parseIfExpression once the condition is parsed
parseConsequence(p, c) ==
    The({ IF ~x2.ok THEN Nil(x2.p)
          ELSE The({ IF ~x3.ok THEN Nil(x3.p)
                     ELSE The({ parseElse(p, c, cons)
                                : cons \in {parseBlockStatement(x3.p)} })
                     : x3 \in {expectPeek(x2.p, LBRACE)} })
          : x2 \in {expectPeek(c.p, RPAREN)} })

parseIfExpression(p) ==
    The({ IF ~x1.ok THEN Nil(x1.p)
          ELSE The({ parseConsequence(p, c)
                     : c \in {parseExpression(nextToken(x1.p), LOWEST)} })
          : x1 \in {expectPeek(p, LPAREN)} })

\* the identifiers after the first, each after a comma
RECURSIVE parseMoreParameters(_, _)
parseMoreParameters(p, ids) ==
    IF peekTokenIs(p, COMMA)
    THEN The({ parseMoreParameters(q, Append(ids, parseIdentifier(q).node))
               : q \in {nextToken(nextToken(p))} })
    ELSE [ids |-> ids, p |-> p]

\* ok is FALSE for a nil result
parseFunctionParameters(p) ==
    IF peekTokenIs(p, RPAREN) THEN [ok |-> TRUE, ids |-> <<>>, p |-> nextToken(p)]
    ELSE The({ The({ The({ [ok |-> x.ok,
                            ids |-> IF x.ok THEN m.ids ELSE <<>>,
                            p |-> x.p]
                           : x \in {expectPeek(m.p, RPAREN)} })
                     : m \in {parseMoreParameters(q, <<parseIdentifier(q).node>>)} })
               : q \in {nextToken(p)} })

parseFunctionLiteral(p) ==
    The({ IF ~x1.ok THEN Nil(x1.p)
          ELSE The({ The({ IF ~x2.ok THEN Nil(x2.p)
                           ELSE The({ [node |-> WithToken(p.curToken,
                                                 FunctionLiteral(ps.ids, body.node)),
                                       p |-> body.p]
                                      : body \in {parseBlockStatement(x2.p)} })
                           : x2 \in {expectPeek(ps.p, LBRACE)} })
                     : ps \in {parseFunctionParameters(x1.p)} })
          : x1 \in {expectPeek(p, LPAREN)} })

parseMoreExpressions(p, list) ==
    IF peekTokenIs(p, COMMA)
    THEN The({ parseMoreExpressions(e.p, Append(list, e.node))
               : e \in {parseExpression(nextToken(nextToken(p)), LOWEST)} })
    ELSE [list |-> list, p |-> p]

\* ok is FALSE for a nil result
parseExpressionList(p, end) ==
    IF peekTokenIs(p, end) THEN [ok |-> TRUE, list |-> <<>>, p |-> nextToken(p)]
    ELSE The({ The({ The({ [ok |-> x.ok,
                            list |-> IF x.ok THEN m.list ELSE <<>>,
                            p |-> x.p]
                           : x \in {expectPeek(m.p, end)} })
                     : m \in {parseMoreExpressions(e.p, <<e.node>>)} })
               : e \in {parseExpression(nextToken(p), LOWEST)} })

parseArrayLiteral(p) ==
    The({ [node |-> WithToken(p.curToken, ArrayLiteral(r.list)), p |-> r.p]
          : r \in {parseExpressionList(p, RBRACKET)} })

parseCallExpression(p, function) ==
    The({ [node |-> WithToken(p.curToken, CallExpression(function, r.list)),
           p |-> r.p]
          : r \in {parseExpressionList(p, RPAREN)} })

parseIndexExpression(p, left) ==
    The({ The({ IF x.ok
                THEN [node |-> WithToken(p.curToken, IndexExpression(left, i.node)),
                      p |-> x.p]
                ELSE Nil(x.p)
                : x \in {expectPeek(i.p, RBRACKET)} })
          : i \in {parseExpression(nextToken(p), LOWEST)} })

\* the rest of one pair once its value is parsed
parsePairEnd(v, added) ==
    IF peekTokenIs(v.p, RBRACE) THEN [ok |-> TRUE, pairs |-> added, p |-> v.p]
    ELSE The({ IF y.ok THEN parseHashPairs(y.p, added)
               ELSE [ok |-> FALSE, pairs |-> added, p |-> y.p]
               : y \in {expectPeek(v.p, COMMA)} })

\* the pairs up to the closing brace; ok is FALSE for a nil result
parseHashPairs(p, pairs) ==
    IF peekTokenIs(p, RBRACE) THEN [ok |-> TRUE, pairs |-> pairs, p |-> p]
    ELSE The({ The({ IF ~x.ok THEN [ok |-> FALSE, pairs |-> pairs, p |-> x.p]
                     ELSE The({ parsePairEnd(v, Append(pairs, [Key |-> k.node,
                                                               Value |-> v.node]))
                                : v \in {parseExpression(nextToken(x.p), LOWEST)} })
                     : x \in {expectPeek(k.p, COLON)} })
               : k \in {parseExpression(nextToken(p), LOWEST)} })

parseHashLiteral(p) ==
    The({ IF ~r.ok THEN Nil(r.p)
          ELSE The({ IF x.ok
                     THEN [node |-> WithToken(p.curToken, HashLiteral(r.pairs)),
                           p |-> x.p]
                     ELSE Nil(x.p)
                     : x \in {expectPeek(r.p, RBRACE)} })
          : r \in {parseHashPairs(p, <<>>)} })

parsePrefix(p) ==
    CASE curTokenIs(p, IDENT) -> parseIdentifier(p)
      [] curTokenIs(p, INT) -> parseIntegerLiteral(p)
      [] curTokenIs(p, STRING_TOK) -> parseStringLiteral(p)
      [] curTokenIs(p, BANG) \/ curTokenIs(p, MINUS) -> parsePrefixExpression(p)
      [] curTokenIs(p, TRUE_TOK) \/ curTokenIs(p, FALSE_TOK) -> parseBoolean(p)
      [] curTokenIs(p, LPAREN) -> parseGroupedExpression(p)
      [] curTokenIs(p, IF_TOK) -> parseIfExpression(p)
      [] curTokenIs(p, FUNCTION) -> parseFunctionLiteral(p)
      [] curTokenIs(p, LBRACKET) -> parseArrayLiteral(p)
      [] curTokenIs(p, LBRACE) -> parseHashLiteral(p)

parseInfix(p, left) ==
    CASE curTokenIs(p, LPAREN) -> parseCallExpression(p, left)
      [] curTokenIs(p, LBRACKET) -> parseIndexExpression(p, left)
      [] OTHER -> parseInfixExpression(p, left)

parseInfixLoop(left, p, precedence) ==
    IF ~peekTokenIs(p, SEMICOLON) /\ precedence < peekPrecedence(p)
    THEN IF p.peekToken.Type \notin infixParseFns THEN [node |-> left, p |-> p]
         ELSE The({ parseInfixLoop(r.node, r.p, precedence)
                    : r \in {parseInfix(nextToken(p), left)} })
    ELSE [node |-> left, p |-> p]

parseExpression(p, precedence) ==
    IF p.curToken.Type \notin prefixParseFns
    THEN Nil(noPrefixParseFnError(p, p.curToken.Type))
    ELSE The({ parseInfixLoop(left.node, left.p, precedence)
               : left \in {parsePrefix(p)} })

skipSemicolon(p) == IF peekTokenIs(p, SEMICOLON) THEN nextToken(p) ELSE p

parseLetStatement(p) ==
    The({ IF ~x1.ok THEN Nil(x1.p)
          ELSE The({ IF ~x2.ok THEN Nil(x2.p)
                     ELSE The({ [node |-> WithToken(p.curToken,
                                           LetStatement(parseIdentifier(x1.p).node,
                                                        v.node)),
                                 p |-> skipSemicolon(v.p)]
                                : v \in {parseExpression(nextToken(x2.p), LOWEST)} })
                     : x2 \in {expectPeek(x1.p, ASSIGN)} })
          : x1 \in {expectPeek(p, IDENT)} })

parseReturnStatement(p) ==
    The({ [node |-> WithToken(p.curToken, ReturnStatement(v.node)),
           p |-> skipSemicolon(v.p)]
          : v \in {parseExpression(nextToken(p), LOWEST)} })

parseExpressionStatement(p) ==
    The({ [node |-> WithToken(p.curToken, ExpressionStatement(e.node)),
           p |-> skipSemicolon(e.p)]
          : e \in {parseExpression(p, LOWEST)} })

parseStatement(p) ==
    CASE curTokenIs(p, LET_TOK) -> parseLetStatement(p)
      [] curTokenIs(p, RETURN) -> parseReturnStatement(p)
      [] OTHER -> parseExpressionStatement(p)

\* the statements up to a token of one of the kinds in ends
parseStatements(p, stmts, ends) ==
    IF p.curToken.Type \in ends THEN [stmts |-> stmts, p |-> p]
    ELSE The({ parseStatements(nextToken(s.p),
                               IF s.node = NilNode THEN stmts
                               ELSE Append(stmts, s.node),
                               ends)
               : s \in {parseStatement(p)} })

parseBlockStatement(p) ==
    The({ [node |-> WithToken(p.curToken, BlockStatement(r.stmts)), p |-> r.p]
          : r \in {parseStatements(nextToken(p), <<>>, {RBRACE, EOF})} })

ParseProgram(p) ==
    The({ [node |-> Program(r.stmts), p |-> r.p]
          : r \in {parseStatements(p, <<>>, {EOF})} })

\* the tokens a parser of this input may take before it is cut off
ReadLimit(in) == 2 * Len(in) + 4

\* lexer.New, parser.New, ParseProgram, Errors
Parse(in) ==
    The({ [program |-> r.node, errors |-> r.p.errors, p |-> r.p]
          : r \in {ParseProgram(NewParser(New(in), ReadLimit(in)))} })

(***************************************************************************)
(* ast: the String() methods.  The text is a sequence of bytes.  Value of  *)
(* an Identifier and Operator of a prefix or infix expression are the      *)
(* literal of the node's token, from which the text takes their bytes.     *)
(***************************************************************************)
\* strings.Join(parts, ", ")
RECURSIVE Join(_)
Join(parts) ==
    IF parts = <<>> THEN <<>>
    ELSE IF Len(parts) = 1 THEN parts[1]
    ELSE parts[1] \o <<44, 32>> \o Join(Tail(parts))

\* the texts written one after the other
RECURSIVE Concat(_)
Concat(parts) == IF parts = <<>> THEN <<>> ELSE Head(parts) \o Concat(Tail(parts))

\* a bug: the literal of the node's token is dropped
TokenLiteralEmpty(n) == <<>>

TokenLiteral(n) == n.Token.Literal

\* "let " name " = " value ";"
LetStatementString(n, name, value) ==
    TokenLiteral(n) \o <<32>> \o name \o <<32, 61, 32>> \o value \o <<59>>

\* "return " value ";"
ReturnStatementString(n, value) == TokenLiteral(n) \o <<32>> \o value \o <<59>>

\* "(" operator right ")"
PrefixExpressionString(n, right) == <<40>> \o n.Token.Literal \o right \o <<41>>

\* a bug: the parentheses are left out
InfixExpressionStringBare(n, left, right) ==
    left \o <<32>> \o n.Token.Literal \o <<32>> \o right

\* "(" left " " operator " " right ")"
InfixExpressionString(n, left, right) ==
    <<40>> \o left \o <<32>> \o n.Token.Literal \o <<32>> \o right \o <<41>>

\* "if" condition " " consequence, then "else " alternative when there is one
IfExpressionString(n, condition, consequence, alternative) ==
    <<105, 102>> \o condition \o <<32>> \o consequence
    \o (IF n.Alternative # NoBlock THEN <<101, 108, 115, 101, 32>> \o alternative
        ELSE <<>>)

\* "fn" "(" params ")" body
FunctionLiteralString(n, params, body) ==
    TokenLiteral(n) \o <<40>> \o Join(params) \o <<41>> \o body

\* function "(" args ")"
CallExpressionString(function, args) == function \o <<40>> \o Join(args) \o <<41>>

\* "[" elements "]"
ArrayLiteralString(elems) == <<91>> \o Join(elems) \o <<93>>

\* "(" left "[" index "])"
IndexExpressionString(left, index) ==
    <<40>> \o left \o <<91>> \o index \o <<93, 41>>

\* "{" key ":" value, ... "}", the pairs as the range over the map gave them
HashLiteralString(pairs) == <<123>> \o Join(pairs) \o <<125>>

\* node.String(), every range over a map of n pairs in the order o gives
RECURSIVE NodeString(_, _)
NodeString(n, o) ==
    LET Each(list) == [i \in 1..Len(list) |-> NodeString(list[i], o)]
    IN  CASE n.node \in {"Program", "BlockStatement"} -> Concat(Each(n.Statements))
          [] n.node = "LetStatement" ->
                LetStatementString(n, NodeString(n.Name, o),
                    IF n.Value # NilNode THEN NodeString(n.Value, o) ELSE <<>>)
          [] n.node = "ReturnStatement" ->
                ReturnStatementString(n,
                    IF n.ReturnValue # NilNode THEN NodeString(n.ReturnValue, o)
                    ELSE <<>>)
          [] n.node = "ExpressionStatement" ->
                IF n.Expression # NilNode THEN NodeString(n.Expression, o)
                ELSE <<>>
          [] n.node \in {"Identifier", "IntegerLiteral", "Boolean", "StringLiteral"} ->
                n.Token.Literal
          [] n.node = "PrefixExpression" ->
                PrefixExpressionString(n, NodeString(n.Right, o))
          [] n.node = "InfixExpression" ->
                InfixExpressionString(n, NodeString(n.Left, o), NodeString(n.Right, o))
          [] n.node = "IfExpression" ->
                IfExpressionString(n, NodeString(n.Condition, o),
                    NodeString(n.Consequence, o),
                    IF n.Alternative # NoBlock THEN NodeString(n.Alternative, o)
                    ELSE <<>>)
          [] n.node = "FunctionLiteral" ->
                FunctionLiteralString(n, Each(n.Parameters), NodeString(n.Body, o))
          [] n.node = "CallExpression" ->
                CallExpressionString(NodeString(n.Function, o), Each(n.Arguments))
          [] n.node = "ArrayLiteral" -> ArrayLiteralString(Each(n.Elements))
          [] n.node = "IndexExpression" ->
                IndexExpressionString(NodeString(n.Left, o), NodeString(n.Index, o))
          [] n.node = "HashLiteral" ->
                LET r == RangeOrder(o, Len(n.Pairs))
                IN  HashLiteralString(
                        [i \in 1..Len(r) |->
                            NodeString(n.Pairs[r[i]].Key, o) \o <<58>>
                            \o NodeString(n.Pairs[r[i]].Value, o)])

(***************************************************************************)
(* The lexer as a state machine: New, then NextToken again and again.      *)
(***************************************************************************)
\* NUL, space, '!', '"', '1', '+', '=', '@', '_', 'f', 'i', 0xC8
Alphabet == {0, 32, 33, 34, 49, 43, 61, 64, 95, 102, 105, 200}

Inputs == UNION {[1..n -> Alphabet] : n \in 0..MaxLen}

NoToken == Token("", <<>>)

\* calls made after the first EOF are still made, up to this many in all
MaxCalls(in) == Len(in) + 3

thisLexer == LexerOf(input, position, readPosition, ch)

\* the lexer, and the environments, of a run that does not use them
LexIdle ==
    /\ input = <<>>
    /\ position = 0
    /\ readPosition = 0
    /\ ch = 0
    /\ tok = NoToken
    /\ calls = 0

NoResult == [obj |-> NilObj, ok |-> FALSE]

EnvIdle ==
    /\ heap = <<>>
    /\ madeWith = <<>>
    /\ got = NoResult
    /\ sets = 0

HashIdle ==
    /\ objs = <<>>
    /\ key = NilKey

EvalIdle ==
    /\ program = Program(<<>>)
    /\ order = <<>>
    /\ evalDone = FALSE
    /\ evaluated = NilObj
    /\ out = <<>>
    /\ log = <<>>
    /\ applied = <<>>

\* nothing parsed or printed
NoParse == [program |-> NilNode, errors |-> <<>>, reads |-> 0, cut |-> FALSE,
            last |-> ""]

ParseIdle ==
    /\ source = <<>>
    /\ parsed = NoParse
    /\ printed = <<>>
    /\ reparsed = NoParse

BuiltinIdle ==
    /\ mem = <<>>
    /\ made = <<>>
    /\ ret = NilObj
    /\ call = [name |-> "", args |-> <<>>, done |-> FALSE]
    /\ written = <<>>

DriverIdle ==
    /\ path = ""
    /\ rejected = <<>>
    /\ evalCalls = 0
    /\ reported = <<>>
    /\ exitCode = 0

ReplIdle ==
    /\ textInput = <<>>
    /\ history = <<>>
    /\ evaluating = FALSE
    /\ currentInput = <<>>
    /\ multilineBuffer = <<>>
    /\ isMultiline = FALSE
    /\ cmds = <<>>
    /\ msgs = <<>>
    /\ typed = 0
    /\ msg = ""
    /\ cmd = ""

MoreIdle == ParseIdle /\ BuiltinIdle /\ DriverIdle /\ ReplIdle

LexInit ==
    /\ MoreIdle
    /\ HashIdle
    /\ EvalIdle
    /\ EnvIdle
    /\ input \in Inputs
    /\ LET l == New(input)
       IN  /\ position = l.position
           /\ readPosition = l.readPosition
           /\ ch = l.ch
    /\ tok = NoToken
    /\ calls = 0

LexNextToken ==
    /\ calls < MaxCalls(input)
    /\ LET r == NextToken(thisLexer)
       IN  /\ tok' = r.tok
           /\ position' = r.l.position
           /\ readPosition' = r.l.readPosition
           /\ ch' = r.l.ch
    /\ calls' = calls + 1
    /\ UNCHANGED <<input, envVars, hashVars, evalVars, moreVars>>

LexNext == LexNextToken

LexSpec == LexInit /\ [][LexNext]_vars

(***************************************************************************)
(* Lexer properties                                                        *)
(***************************************************************************)
\* C1: once NextToken has returned EOF, every later call returns EOF and
\* position, readPosition and ch no longer change.
C1_EofIsAbsorbing ==
    [][tok.Type = EOF =>
        /\ tok'.Type = EOF
        /\ position' = position
        /\ readPosition' = readPosition
        /\ ch' = ch]_vars

\* a call made after EOF had already been returned (on a non-empty input)
C1_Witness ==
    /\ tok.Type = EOF
    /\ Len(input) > 0
    /\ calls = MaxCalls(input)

\* C2: every call that returns a non-EOF token advances the cursor by at
\* least one byte, and from the (len(input)+1)-th call on the token is EOF.
C2_EofWithinLenPlusOne ==
    /\ [](calls >= Len(input) + 1 => tok.Type = EOF)
    /\ [][tok'.Type # EOF => position' > position]_vars

\* an input of MaxLen one-byte tokens: EOF comes exactly at call len(input)+1
C2_Witness ==
    /\ Len(input) = MaxLen
    /\ calls = Len(input) + 1
    /\ tok.Type = EOF
    /\ position = Len(input)

isIdentByte(c) == isLetter(c) \/ isDigit(c)

\* the end (0-based, exclusive) of the maximal run of letters, digits and
\* '_' of s that starts at p
RECURSIVE RunEnd(_, _)
RunEnd(s, p) ==
    IF p < Len(s) /\ isIdentByte(s[p + 1]) THEN RunEnd(s, p + 1) ELSE p

\* C3: when the current byte is a letter or '_', NextToken returns the
\* maximal run of letters, digits and '_' as one token, keyword or IDENT.
C3_IdentifierIsMaximalRun ==
    [][LET l == skipWhitespace(thisLexer)
           run == Slice(input, l.position, RunEnd(input, l.position))
       IN  isLetter(l.ch) =>
            /\ tok'.Literal = run
            /\ tok'.Type = LookupIdent(run)
            /\ position' = RunEnd(input, l.position)]_vars

(***************************************************************************)
(* The environments as a state machine: any interleaving of the package's  *)
(* four operations.                                                        *)
(***************************************************************************)
Names == {"x", "y"}

Vals == {Integer(1), Integer(2)}

Envs == 1..Len(heap)

\* the driver's global environment exists from the start
EnvInit ==
    /\ MoreIdle
    /\ LexIdle
    /\ HashIdle
    /\ EvalIdle
    /\ heap = NewEnvironment(<<>>).h
    /\ madeWith = <<[outer |-> NilEnv, early |-> TRUE]>>
    /\ got = NoResult
    /\ sets = 0

EnvNewEnclosedEnvironment(outer) ==
    /\ Len(heap) < 1 + MaxEnclosed
    /\ heap' = NewEnclosedEnvironment(heap, outer).h
    /\ madeWith' = Append(madeWith, [outer |-> outer, early |-> sets = 0])
    /\ UNCHANGED <<got, sets, lexVars, hashVars, evalVars, moreVars>>

EnvGet(e, name) ==
    /\ got' = Get(heap, e, name)
    /\ UNCHANGED <<heap, madeWith, sets, lexVars, hashVars, evalVars, moreVars>>

EnvSet(e, name, val) ==
    /\ sets < MaxSets
    /\ heap' = Set(heap, e, name, val)
    /\ sets' = sets + 1
    /\ UNCHANGED <<madeWith, got, lexVars, hashVars, evalVars, moreVars>>

EnvNext ==
    \/ \E outer \in Envs : EnvNewEnclosedEnvironment(outer)
    \/ \E e \in Envs, name \in Names : EnvGet(e, name)
    \/ \E e \in Envs, name \in Names, val \in Vals : EnvSet(e, name, val)

EnvSpec == EnvInit /\ [][EnvNext]_vars

(***************************************************************************)
(* Environment properties                                                  *)
(***************************************************************************)
\* the frames from e out to the root, e first
RECURSIVE Chain(_, _)
Chain(h, e) == IF e = NilEnv THEN <<>> ELSE <<e>> \o Chain(h, h[e].outer)

\* the binding of name in the nearest frame of e's chain that binds it
NearestBinding(h, e, name) ==
    LET c == Chain(h, e)
        binders == {i \in 1..Len(c) : name \in DOMAIN h[c[i]].store}
    IN  IF binders = {}
        THEN [obj |-> NilObj, ok |-> FALSE]
        ELSE LET first == CHOOSE i \in binders : \A j \in binders : i <= j
             IN  [obj |-> h[c[first]].store[name], ok |-> TRUE]

\* C4: Get(name) returns the value bound in the nearest frame of the outer
\* chain that binds name, and not-found exactly when no frame binds it.
C4_GetFindsNearestBinding ==
    /\ [](\A e \in Envs, name \in Names :
            Get(heap, e, name) = NearestBinding(heap, e, name))
    /\ [][\A e \in Envs, name \in Names :
            EnvGet(e, name) => got' = NearestBinding(heap, e, name)]_vars

\* Get has returned the inner binding of a name that an outer frame binds to
\* another value
C4_Witness ==
    \E e \in Envs, name \in Names :
        /\ heap[e].outer # NilEnv
        /\ name \in DOMAIN heap[e].store
        /\ Get(heap, heap[e].outer, name).ok
        /\ Get(heap, heap[e].outer, name).obj # heap[e].store[name]
        /\ got = [obj |-> heap[e].store[name], ok |-> TRUE]

\* C5: Set on an environment changes that environment's frame only: every
\* other environment is unchanged, and Get on each outer environment of the
\* chain returns what it returned before.
C5_SetChangesOwnFrameOnly ==
    [][\A e \in Envs, name \in Names, val \in Vals :
        EnvSet(e, name, val) =>
            /\ \A o \in Envs \ {e} : heap'[o] = heap[o]
            /\ heap'[e].outer = heap[e].outer
            /\ \A n \in Names \ {name} :
                    /\ (n \in DOMAIN heap'[e].store) = (n \in DOMAIN heap[e].store)
                    /\ n \in DOMAIN heap[e].store =>
                            heap'[e].store[n] = heap[e].store[n]
            /\ name \in DOMAIN heap'[e].store
            /\ heap'[e].store[name] = val
            /\ \A i \in 2..Len(Chain(heap, e)), n \in Names :
                    Get(heap', Chain(heap, e)[i], n) = Get(heap, Chain(heap, e)[i], n)]_vars

\* an enclosed environment binds a name that its outer binds to another
\* value, and a third environment exists
C5_Witness ==
    \E e \in Envs, name \in Names :
        /\ heap[e].outer # NilEnv
        /\ name \in DOMAIN heap[e].store
        /\ name \in DOMAIN heap[heap[e].outer].store
        /\ heap[heap[e].outer].store[name] # heap[e].store[name]
        /\ Len(heap) >= 3

\* the environments e was enclosed over, nearest first, as constructed
RECURSIVE MadeChain(_, _)
MadeChain(m, e) ==
    IF e = NilEnv THEN <<>> ELSE <<e>> \o MadeChain(m, m[e].outer)

\* o is an outer environment of e as constructed, and no frame from e up to
\* o (o excluded) binds name in h
SeesThrough(h, m, e, o, name) ==
    LET c == MadeChain(m, e)
    IN  \E i \in 2..Len(c) :
            /\ c[i] = o
            /\ \A j \in 1..(i - 1) : name \notin DOMAIN h[c[j]].store

\* C6: an enclosed environment shares its outer environment: a binding set
\* in the outer one after NewEnclosedEnvironment(outer) is what Get returns
\* on every environment enclosed over it that does not shadow the name.
C6_EnclosedSharesOuter ==
    [][\A o \in Envs, name \in Names, val \in Vals :
        EnvSet(o, name, val) =>
            \A e \in Envs :
                SeesThrough(heap', madeWith, e, o, name) =>
                    Get(heap', e, name) = [obj |-> val, ok |-> TRUE]]_vars

\* two environments enclosed over the same outer one before any Set call
\* both see a binding that neither of them holds
C6_Witness ==
    \E o \in Envs, name \in Names :
        \E e1, e2 \in Envs :
            /\ e1 # e2
            /\ madeWith[e1] = [outer |-> o, early |-> TRUE]
            /\ madeWith[e2] = [outer |-> o, early |-> TRUE]
            /\ name \notin DOMAIN heap[e1].store
            /\ name \notin DOMAIN heap[e2].store
            /\ Get(heap, e1, name).ok
            /\ Get(heap, e2, name).ok

(***************************************************************************)
(* The hashable objects as a state machine: objects are allocated and      *)
(* HashKey() is called on them, in any order.                              *)
(***************************************************************************)
IntegerValues == {-1, 0, 1}

\* "" and "a"
StringValues == {<<>>, <<97>>}

Hashables ==
    {Integer(v) : v \in IntegerValues}
    \cup {Boolean(b) : b \in BOOLEAN}
    \cup {String(v) : v \in StringValues}

HashInit ==
    /\ MoreIdle
    /\ LexIdle
    /\ EnvIdle
    /\ EvalIdle
    /\ objs = <<>>
    /\ key = NilKey

HashNewObject(obj) ==
    /\ Len(objs) < MaxObjs
    /\ objs' = Append(objs, obj)
    /\ UNCHANGED <<key, lexVars, envVars, evalVars, moreVars>>

HashKeyCall(i) ==
    /\ LET r == HashKeyOf(objs[i])
       IN  /\ key' = r.key
           /\ objs' = [objs EXCEPT ![i] = r.self]
    /\ UNCHANGED <<lexVars, envVars, evalVars, moreVars>>

HashNext ==
    \/ \E obj \in Hashables : HashNewObject(obj)
    \/ \E i \in 1..Len(objs) : HashKeyCall(i)

HashSpec == HashInit /\ [][HashNext]_vars

(***************************************************************************)
(* Hash-key properties                                                     *)
(***************************************************************************)
\* C10: the hash keys of two values of different variants are never equal,
\* whatever their numeric parts: every key returned carries the tag of its
\* receiver's variant.
C10_KeysOfDifferentVariantsDiffer ==
    /\ [](\A i, j \in 1..Len(objs) :
            objs[i].kind # objs[j].kind =>
                HashKeyOf(objs[i]).key # HashKeyOf(objs[j]).key)
    /\ [][\A i \in 1..Len(objs) :
            HashKeyCall(i) =>
                \A j \in 1..Len(objs) :
                    objs[j].kind # objs[i].kind => key' # HashKeyOf(objs[j]).key]_vars

\* Integer 1 and Boolean true are both allocated, and the key just returned
\* is the Boolean's: it has the numeric part of the Integer's key
C10_Witness ==
    \E i, j \in 1..Len(objs) :
        /\ objs[i] = Integer(1)
        /\ objs[j] = Boolean(TRUE)
        /\ key = HashKeyOf(objs[j]).key
        /\ key.Value = HashKeyOf(objs[i]).key.Value

\* the same variant and payload, whatever the state of the cache
SamePayload(a, b) == a.kind = b.kind /\ a.Value = b.Value

\* a value of the same variant and payload constructed now
Clone(obj) ==
    CASE obj.kind = "Integer" -> Integer(obj.Value)
      [] obj.kind = "Boolean" -> Boolean(obj.Value)
      [] obj.kind = "String" -> String(obj.Value)

\* C11: two hashable values with the same payload have the same hash key,
\* whether or not either has its key cached; and every HashKey call, the
\* first on a String as well as the later ones served from its cache,
\* returns the key a newly constructed value with that payload gives, and
\* leaves the payload as it was.
C11_KeyOfEqualPayloadIsEqual ==
    /\ [](\A i, j \in 1..Len(objs) :
            SamePayload(objs[i], objs[j]) =>
                HashKeyOf(objs[i]).key = HashKeyOf(objs[j]).key)
    /\ [][\A i \in 1..Len(objs) :
            HashKeyCall(i) =>
                /\ key' = HashKeyOf(Clone(objs[i])).key
                /\ key' = HashKeyOf(objs'[i]).key
                /\ SamePayload(objs'[i], objs[i])]_vars

\* two copies of the String "a", one with its key cached and one without,
\* and the key just returned is the one in the cache
C11_Witness ==
    \E i, j \in 1..Len(objs) :
        /\ objs[i].kind = "String" /\ objs[j].kind = "String"
        /\ objs[i].Value = <<97>> /\ objs[j].Value = <<97>>
        /\ objs[i].hashKey # NilKey
        /\ objs[j].hashKey = NilKey
        /\ key = objs[i].hashKey

(***************************************************************************)
(* The evaluator as a state machine: a driver makes the global environment *)
(* and calls Eval on a parsed program.                                     *)
(***************************************************************************)
Puts(v) == CallExpression(Identifier("puts"), <<IntegerLiteral(v)>>)

PutsStatement(v) == ExpressionStatement(Puts(v))

Let(name, e) == LetStatement(Identifier(name), e)

Call0(name) == CallExpression(Identifier(name), <<>>)

\* stmts inside d blocks, each block followed by a puts:
\*   if (true) { if (true) { stmts }; puts(1) }; puts(2)
RECURSIVE Nested(_, _)
Nested(d, stmts) ==
    IF d = 0 THEN stmts
    ELSE <<ExpressionStatement(
               IfExpression(BooleanLiteral(TRUE),
                            BlockStatement(Nested(d - 1, stmts)), NoBlock)),
           PutsStatement(d)>>

\* the same with the statements in the else branch of the innermost if
NestedElse(d, stmts) ==
    Nested(d - 1,
        <<ExpressionStatement(
              IfExpression(BooleanLiteral(FALSE),
                           BlockStatement(<<PutsStatement(5)>>),
                           BlockStatement(stmts))),
          PutsStatement(d)>>)

Depths == 0..MaxDepth

ReturnBodies ==
    {<<ReturnStatement(IntegerLiteral(7)), PutsStatement(0)>>,
     <<PutsStatement(3), ReturnStatement(Puts(4)), PutsStatement(0)>>}

\* programs with a return at every depth, at top level and in a function
ReturnPrograms ==
    {Program(Nested(d, b)) : d \in Depths, b \in ReturnBodies}
    \cup {Program(NestedElse(d, b)) : d \in Depths \ {0}, b \in ReturnBodies}
    \cup {Program(<<Let("f", FunctionLiteral(<<>>, BlockStatement(Nested(d, b)))),
                    Let("r", Call0("f")),
                    PutsStatement(8),
                    ExpressionStatement(Identifier("r"))>>) :
            d \in Depths, b \in ReturnBodies}
    \cup {Program(<<Let("f", FunctionLiteral(<<>>, BlockStatement(Nested(d, b)))),
                    Let("g", FunctionLiteral(<<>>, BlockStatement(
                        <<ExpressionStatement(Call0("f")),
                          PutsStatement(6),
                          ReturnStatement(IntegerLiteral(9)),
                          PutsStatement(0)>>))),
                    ReturnStatement(Call0("g")),
                    PutsStatement(0)>>) :
            d \in Depths, b \in ReturnBodies}

IfReturn(v) ==
    IfExpression(BooleanLiteral(TRUE),
                 BlockStatement(<<ReturnStatement(IntegerLiteral(v))>>), NoBlock)

\* programs with a return in an if that is an operand, not a statement:
\*   let f = fn() { <the if in some place>; puts(2); 5 }; let r = f(); puts(8); r
\* and the same statements at top level
ReturnInExpressionBodies ==
    {<<s, PutsStatement(2), ExpressionStatement(IntegerLiteral(5))>> :
        s \in {Let("x", IfReturn(v)) : v \in {1, 2}}
            \cup {ExpressionStatement(PrefixExpression("!", IfReturn(1))),
                  ExpressionStatement(ArrayLiteral(<<IfReturn(1)>>)),
                  ExpressionStatement(
                      CallExpression(Identifier("len"),
                                     <<ArrayLiteral(<<IfReturn(1)>>)>>))}}
    \cup {<<Let("x", IfReturn(1)), PutsStatement(2),
            ExpressionStatement(Identifier("x"))>>}

ReturnInExpressionPrograms ==
    {Program(b) : b \in ReturnInExpressionBodies}
    \cup {Program(<<Let("f", FunctionLiteral(<<>>, BlockStatement(b))),
                    Let("r", Call0("f")),
                    PutsStatement(8),
                    ExpressionStatement(Identifier("r"))>>) :
            b \in ReturnInExpressionBodies}

\* expressions whose value is an Error: 1 + true, zz, -true, 1(), len(1)
ErrorExpressions ==
    {InfixExpression(IntegerLiteral(1), "+", BooleanLiteral(TRUE)),
     Identifier("zz"),
     PrefixExpression("-", BooleanLiteral(TRUE)),
     CallExpression(IntegerLiteral(1), <<>>),
     CallExpression(Identifier("len"), <<IntegerLiteral(1)>>)}

\* n pairs of a hash literal, e being the key or the value of pair k
\* (1..n, wrapping) and every other pair writing a line
ErrorPairs(n, k, e, inKey) ==
    [i \in 1..n |->
        IF i # ((k - 1) % n) + 1
        THEN [Key |-> IntegerLiteral(i), Value |-> Puts(3)]
        ELSE IF inKey THEN [Key |-> e, Value |-> Puts(2)]
        ELSE [Key |-> IntegerLiteral(i), Value |-> e]]

\* e in every place where a sub-evaluation happens, with a puts before it
\* where the place allows one and a puts after it
ErrorContexts(e) ==
    {<<PutsStatement(1), ExpressionStatement(e), PutsStatement(2)>>,
     <<PutsStatement(1), Let("x", e), PutsStatement(2)>>,
     <<PutsStatement(1), ReturnStatement(e), PutsStatement(2)>>,
     <<ExpressionStatement(InfixExpression(e, "+", Puts(2))), PutsStatement(2)>>,
     <<ExpressionStatement(InfixExpression(Puts(1), "+", e)), PutsStatement(2)>>,
     <<ExpressionStatement(PrefixExpression("!", e)), PutsStatement(2)>>,
     <<ExpressionStatement(
           IfExpression(e, BlockStatement(<<PutsStatement(2)>>),
                        BlockStatement(<<PutsStatement(2)>>))),
       PutsStatement(2)>>,
     <<ExpressionStatement(CallExpression(e, <<Puts(2)>>)), PutsStatement(2)>>,
     <<ExpressionStatement(
           CallExpression(Identifier("puts"), <<Puts(1), e, Puts(2)>>)),
       PutsStatement(2)>>,
     <<ExpressionStatement(ArrayLiteral(<<Puts(1), e, Puts(2)>>)),
       PutsStatement(2)>>,
     <<ExpressionStatement(IndexExpression(e, Puts(2))), PutsStatement(2)>>,
     <<ExpressionStatement(
           IndexExpression(ArrayLiteral(<<IntegerLiteral(1)>>), e)),
       PutsStatement(2)>>,
     <<Let("f", FunctionLiteral(<<>>, BlockStatement(
           <<PutsStatement(1), ExpressionStatement(e), PutsStatement(2)>>))),
       ExpressionStatement(Call0("f")),
       PutsStatement(2)>>}
    \cup {Nested(d, <<PutsStatement(3), ExpressionStatement(e), PutsStatement(0)>>) :
            d \in Depths \ {0}}
    \cup {<<ExpressionStatement(HashLiteral(ErrorPairs(n, k, e, inKey))),
             PutsStatement(2)>> :
            n \in 1..MaxPairs, k \in 1..MaxPairs, inKey \in BOOLEAN}

ErrorPrograms ==
    UNION {{Program(c) : c \in ErrorContexts(e)} : e \in ErrorExpressions}

Add(a, b) == InfixExpression(a, "+", b)

\* programs that call functions from a scope other than the defining one,
\* with the same names bound in both
ScopePrograms ==
    {
     \* let x = v; let f = fn() { x }; let g = fn() { let x = 9; f() }; g()
     Program(<<Let("x", IntegerLiteral(v)),
               Let("f", FunctionLiteral(<<>>, BlockStatement(
                   <<ExpressionStatement(Identifier("x"))>>))),
               Let("g", FunctionLiteral(<<>>, BlockStatement(
                   <<Let("x", IntegerLiteral(9)),
                     ExpressionStatement(Call0("f"))>>))),
               ExpressionStatement(Call0("g"))>>) : v \in {1, 2}}
    \cup {
     \* let x = v; let f = fn() { x }; let g = fn(x) { f() }; g(9)
     Program(<<Let("x", IntegerLiteral(v)),
               Let("f", FunctionLiteral(<<>>, BlockStatement(
                   <<ExpressionStatement(Identifier("x"))>>))),
               Let("g", FunctionLiteral(<<Identifier("x")>>, BlockStatement(
                   <<ExpressionStatement(Call0("f"))>>))),
               ExpressionStatement(
                   CallExpression(Identifier("g"), <<IntegerLiteral(9)>>))>>) :
        v \in {1, 2}}
    \cup {
     \* let f = fn(a) { let b = a; b }; f(v); n       with n one of a, b
     Program(<<Let("f", FunctionLiteral(<<Identifier("a")>>, BlockStatement(
                   <<Let("b", Identifier("a")),
                     ExpressionStatement(Identifier("b"))>>))),
               ExpressionStatement(
                   CallExpression(Identifier("f"), <<IntegerLiteral(v)>>)),
               ExpressionStatement(Identifier(n))>>) :
        v \in {1, 2}, n \in {"a", "b"}}
    \cup {
     \* let x = v; let f = fn(p) { let x = 9; x + p }; f(x) + x
     Program(<<Let("x", IntegerLiteral(v)),
               Let("f", FunctionLiteral(<<Identifier("p")>>, BlockStatement(
                   <<Let("x", IntegerLiteral(9)),
                     ExpressionStatement(Add(Identifier("x"), Identifier("p")))>>))),
               ExpressionStatement(
                   Add(CallExpression(Identifier("f"), <<Identifier("x")>>),
                       Identifier("x")))>>) : v \in {1, 2}}
    \cup {
     \* let newAdder = fn(x) { fn(y) { x + y } };
     \* let addTwo = newAdder(v); let x = 9; let y = 9; addTwo(3)
     Program(<<Let("newAdder", FunctionLiteral(<<Identifier("x")>>, BlockStatement(
                   <<ExpressionStatement(
                       FunctionLiteral(<<Identifier("y")>>, BlockStatement(
                           <<ExpressionStatement(
                               Add(Identifier("x"), Identifier("y")))>>)))>>))),
               Let("addTwo",
                   CallExpression(Identifier("newAdder"), <<IntegerLiteral(v)>>)),
               Let("x", IntegerLiteral(9)),
               Let("y", IntegerLiteral(9)),
               ExpressionStatement(
                   CallExpression(Identifier("addTwo"), <<IntegerLiteral(3)>>))>>) :
        v \in {1, 2}}
    \cup {
     \* let f = fn(n) { if (n < 1) { 0 } else { f(n - 1) + n } }; f(v)
     Program(<<Let("f", FunctionLiteral(<<Identifier("n")>>, BlockStatement(
                   <<ExpressionStatement(
                       IfExpression(
                           InfixExpression(Identifier("n"), "<", IntegerLiteral(1)),
                           BlockStatement(<<ExpressionStatement(IntegerLiteral(0))>>),
                           BlockStatement(<<ExpressionStatement(
                               Add(CallExpression(Identifier("f"),
                                       <<InfixExpression(Identifier("n"), "-",
                                                         IntegerLiteral(1))>>),
                                   Identifier("n")))>>)))>>))),
               ExpressionStatement(
                   CallExpression(Identifier("f"), <<IntegerLiteral(v)>>))>>) :
        v \in {1, 2}}

\* a hash literal of n entries with the keys 1 to n: {1: v(1), 2: v(2)}
Entries(n, v(_)) ==
    HashLiteral([i \in 1..n |-> [Key |-> IntegerLiteral(i), Value |-> v(i)]])

\* the name of a variable that is not bound
Unbound(i) == Identifier("u" \o ToString(i))

\* hash literals of two entries or more, every entry writing a line of its
\* own ({1: puts(1), 2: puts(2)}) or failing with an error of its own
\* ({1: u1, 2: u2})
HashPrograms ==
    {Program(<<ExpressionStatement(Entries(n, Puts))>>) : n \in 2..MaxPairs}
    \cup {Program(<<ExpressionStatement(Entries(n, Unbound))>>) : n \in 2..MaxPairs}

\* the most arguments of a call of a function of two parameters
MaxArgs == 3

\* let f = fn(a, b) { n }; f(1, ..., nargs)   after let b = 7; if outer
ArityProgram(outer, n, nargs) ==
    Program((IF outer THEN <<Let("b", IntegerLiteral(7))>> ELSE <<>>)
            \o <<Let("f", FunctionLiteral(<<Identifier("a"), Identifier("b")>>,
                         BlockStatement(<<ExpressionStatement(Identifier(n))>>))),
                 ExpressionStatement(
                     CallExpression(Identifier("f"),
                                    [i \in 1..nargs |-> IntegerLiteral(i)]))>>)

\* calls with fewer arguments than parameters, as many, and more
ArityPrograms ==
    {ArityProgram(outer, n, nargs) :
        outer \in BOOLEAN, n \in {"a", "b"}, nargs \in 0..MaxArgs}

Programs ==
    ReturnPrograms \cup ReturnInExpressionPrograms \cup ErrorPrograms
        \cup ScopePrograms \cup HashPrograms \cup ArityPrograms

\* the orders in which a range over a map of n pairs may visit them
Orders == Permutations(1..MaxPairs)

State0(h, o) ==
    [heap |-> h, out |-> <<>>, order |-> o, depth |-> 0, cur |-> NilEnv,
     binds |-> 0, log |-> <<>>, applied |-> <<>>]

EvalInit ==
    /\ MoreIdle
    /\ LexIdle
    /\ HashIdle
    /\ madeWith = <<>>
    /\ got = NoResult
    /\ sets = 0
    /\ heap = NewEnvironment(<<>>).h
    /\ program \in Programs
    /\ order \in {[i \in 1..MaxPairs |-> p[i]] : p \in Orders}
    /\ evalDone = FALSE
    /\ evaluated = NilObj
    /\ out = <<>>
    /\ log = <<>>
    /\ applied = <<>>

EvalRun ==
    /\ ~evalDone
    /\ LET r == Eval(program, 1, State0(heap, order))
       IN  /\ evaluated' = r.val
           /\ heap' = r.st.heap
           /\ out' = r.st.out
           /\ log' = r.st.log
           /\ applied' = r.st.applied
    /\ evalDone' = TRUE
    /\ UNCHANGED <<program, order, madeWith, got, sets, lexVars, hashVars, moreVars>>

EvalNext == EvalRun

EvalSpec == EvalInit /\ [][EvalNext]_vars

(***************************************************************************)
(* Function calls and scope                                                *)
(***************************************************************************)
\* what the name evaluates to when it is looked up from environment e
Resolve(e, name) == evalIdentifier(Identifier(name), e, [heap |-> heap])

\* the identifiers evaluated in environment e that e itself does not bind
FreeUses(e) ==
    {i \in 1..Len(log) :
        /\ log[i].node.node = "Identifier"
        /\ log[i].env = e
        /\ log[i].node.Value \notin DOMAIN heap[e].store}

\* C7: a function literal captures the environment it is evaluated in; a call
\* of a Function evaluates the body in a new environment whose outer is that
\* captured environment, whatever the caller's environment is; the names the
\* body does not bind itself evaluate to what they are in the captured
\* environment; and no environment that existed before the call (the
\* caller's and the captured one among them) has a binding added or changed
\* by the call.
C7_CallUsesCapturedEnvironment ==
    evalDone =>
        /\ \A i \in 1..Len(log) :
              log[i].node.node = "FunctionLiteral" => log[i].val.Env = log[i].env
        /\ \A k \in 1..Len(applied) :
              LET a == applied[k]
              IN  /\ a.callEnv = Len(a.before) + 1
                  /\ a.callEnv \in 1..Len(a.after)
                  /\ a.after[a.callEnv].outer = a.fnEnv
                  /\ heap[a.callEnv].outer = a.fnEnv
                  /\ \A i \in FreeUses(a.callEnv) :
                        log[i].val = Resolve(a.fnEnv, log[i].node.Value)
                  /\ \A e \in 1..Len(a.before) : a.after[e] = a.before[e]

\* a function was called from an environment other than the one it captured,
\* with a parameter or let binding made by the call, and a name that the
\* body does not bind is bound in the caller's environment to another value
\* than in the captured one
C7_Witness ==
    /\ evalDone
    /\ \E k \in 1..Len(applied) :
          LET a == applied[k]
          IN  /\ a.callerEnv # a.fnEnv
              /\ \E i \in FreeUses(a.callEnv) :
                    /\ log[i].node.Value \in DOMAIN heap[a.callerEnv].store
                    /\ heap[a.callerEnv].store[log[i].node.Value] # log[i].val
                    /\ log[i].val \in {Integer(1), Integer(2)}
    /\ \E k \in 1..Len(applied) :
          DOMAIN applied[k].after[applied[k].callEnv].store # {}

(***************************************************************************)
(* Return                                                                  *)
(***************************************************************************)
Wrapped(i) == log[i].val.kind = "ReturnValue"

\* the nodes that hand a ReturnValue on as it is
Propagating == {"BlockStatement", "IfExpression", "ExpressionStatement"}

\* C8: the value Eval returns for a program is never a ReturnValue; only
\* return statements and the blocks, ifs and expression statements around
\* them yield one; the evaluation that follows one that yielded a
\* ReturnValue is that of the enclosing node (nothing else of the block is
\* evaluated), which hands the same ReturnValue on, unless it is the call
\* whose body this is or the program, which yields the wrapped value.
C8_ReturnEndsInnermostCall ==
    evalDone =>
        /\ evaluated.kind # "ReturnValue"
        /\ \A i \in 1..Len(log) :
              Wrapped(i) =>
                  /\ log[i].node.node \in Propagating \cup {"ReturnStatement"}
                  /\ i < Len(log)
                  /\ log[i + 1].depth = log[i].depth - 1
                  /\ \/ /\ log[i + 1].node.node \in Propagating
                        /\ log[i + 1].val = log[i].val
                     \/ /\ log[i + 1].node.node \in {"CallExpression", "Program"}
                        /\ log[i + 1].val = log[i].val.Value

(***************************************************************************)
(* Errors                                                                  *)
(***************************************************************************)
Failed(i) == log[i].val.kind = "Error"

\* C9: once an evaluation has yielded an Error, the evaluation that follows
\* it is that of the enclosing node (no later operand, argument, element,
\* pair or statement is evaluated), it yields the same Error, and no binding
\* is made and no line written any more; the program's result is that Error.
C9_ErrorShortCircuits ==
    evalDone =>
        \A i \in 1..Len(log) :
            Failed(i) =>
                /\ evaluated = log[i].val
                /\ Len(out) = log[i].lines
                /\ i < Len(log) =>
                      /\ log[i + 1].depth = log[i].depth - 1
                      /\ log[i + 1].val = log[i].val
                      /\ log[i + 1].binds = log[i].binds
                      /\ log[i + 1].lines = log[i].lines

\* an Error arose at least three evaluations deep, after a line was written
\* and a binding made, in a program of more than two statements, and it is
\* the program's result
C9_Witness ==
    /\ evalDone
    /\ evaluated.kind = "Error"
    /\ \E i \in 1..Len(log) :
          /\ Failed(i)
          /\ log[i].depth >= 3
          /\ log[i].lines > 0
          /\ log[i].binds > 0
          /\ log[Len(log)].node.node = "Program"
          /\ Len(log[Len(log)].node.Statements) > 2

(***************************************************************************)
(* The parser and Program.String() as a state machine: a source is parsed  *)
(* (lexer.New, parser.New, ParseProgram, Errors), the program of a parse   *)
(* without errors is printed with String(), perhaps more than once, and    *)
(* the first text printed is parsed again.                                 *)
(***************************************************************************)

\* the bytes of the pieces of source text the sources are made of; "str"
\* is the string literal "a" with its quotes
Words ==
    (" " :> <<32>>) @@
    ("puts" :> <<112, 117, 116, 115>>) @@
    ("let" :> <<108, 101, 116>>) @@
    ("return" :> <<114, 101, 116, 117, 114, 110>>) @@
    ("if" :> <<105, 102>>) @@
    ("else" :> <<101, 108, 115, 101>>) @@
    ("fn" :> <<102, 110>>) @@
    ("true" :> <<116, 114, 117, 101>>) @@
    ("a" :> <<97>>) @@
    ("b" :> <<98>>) @@
    ("c" :> <<99>>) @@
    ("f" :> <<102>>) @@
    ("x" :> <<120>>) @@
    ("y" :> <<121>>) @@
    ("z" :> <<122>>) @@
    ("1" :> <<49>>) @@
    ("2" :> <<50>>) @@
    ("3" :> <<51>>) @@
    ("4" :> <<52>>) @@
    ("=" :> <<61>>) @@
    ("+" :> <<43>>) @@
    ("-" :> <<45>>) @@
    ("*" :> <<42>>) @@
    ("/" :> <<47>>) @@
    ("<" :> <<60>>) @@
    (">" :> <<62>>) @@
    ("==" :> <<61, 61>>) @@
    ("!=" :> <<33, 61>>) @@
    ("!" :> <<33>>) @@
    (";" :> <<59>>) @@
    ("," :> <<44>>) @@
    (":" :> <<58>>) @@
    ("(" :> <<40>>) @@
    (")" :> <<41>>) @@
    ("{" :> <<123>>) @@
    ("}" :> <<125>>) @@
    ("[" :> <<91>>) @@
    ("]" :> <<93>>) @@
    ("@" :> <<64>>) @@
    ("str" :> <<34, 97, 34>>) @@
    ("if (x) {" :> <<105, 102, 32, 40, 120, 41, 32, 123>>) @@
    ("fn (y) {" :> <<102, 110, 32, 40, 121, 41, 32, 123>>)

RECURSIVE Text(_)
\* the pieces one after the other
Text(ws) == IF ws = <<>> THEN <<>> ELSE Words[Head(ws)] \o Text(Tail(ws))

RECURSIVE Src(_)
\* the pieces with a space between them
Src(ws) ==
    IF Len(ws) <= 1 THEN Text(ws)
    ELSE Words[Head(ws)] \o <<32>> \o Src(Tail(ws))

\* the most pieces of a source put together from SoupWords
MaxWords == 3

\* the most calls of String() on one program
MaxPrints == 2

InfixOps == {"+", "-", "*", "/", "<", ">", "==", "!="}

\* a op1 b op2 c, for every two infix operators
Chains == {<<"a", o1, "b", o2, "c">> : o1 \in InfixOps, o2 \in InfixOps}

\* prefix operators, calls and index expressions next to infix operators
Mixed ==
    { <<"-", "a", "*", "b">>, <<"!", "a", "==", "b">>,
      <<"a", "*", "-", "b">>, <<"-", "-", "a">>,
      <<"a", "*", "b", "[", "c", "]">>, <<"a", "[", "b", "]", "*", "c">>,
      <<"-", "a", "[", "b", "]">>, <<"-", "f", "(", "a", ")">>,
      <<"a", "+", "f", "(", "b", ")", "*", "c">>,
      <<"f", "(", "a", ")", "[", "b", "]">>,
      <<"a", "[", "b", "]", "(", "c", ")">>,
      <<"(", "a", "+", "b", ")", "*", "c">>,
      <<"a", "*", "(", "b", "+", "c", ")">> }

\* one source or more for every kind of node
Shapes ==
    { <<"let", "x", "=", "1", ";">>, <<"return", "x", ";">>,
      <<"let", "x", "=", "1", ";", "let", "y", "=", "x", ";", "return", "y", ";">>,
      <<"x">>, <<"1">>, <<"true">>, <<"str">>, <<"!", "true">>,
      <<"1", ";", "2">>, <<"x", ";">>,
      <<"if", "(", "x", ")", "{", "y", "}">>,
      <<"if", "(", "x", ")", "{", "y", "}", "else", "{", "z", "}">>,
      <<"fn", "(", "a", ",", "b", ")", "{", "a", "}">>,
      <<"fn", "(", ")", "{", "return", "1", ";", "}">>,
      <<"f", "(", "1", ",", "2", ")">>, <<"f", "(", ")">>,
      <<"[", "1", ",", "2", "]">>, <<"[", "]">>, <<"a", "[", "1", "]">>,
      <<"{", "}">>, <<"{", "1", ":", "2", "}">>,
      <<"{", "1", ":", "2", ",", "3", ":", "4", "}">>,
      <<"{", "a", ":", "b", ",", "str", ":", "[", "1", "]", "}">>,
      <<"let", "x", "=", "{", "1", ":", "2", ",", "3", ":", "4", "}", ";">> }

WellFormed == Chains \cup Mixed \cup Shapes

\* the pieces of the sources that need not be well formed
SoupWords ==
    {"let", "x", "=", "1", "+", "(", ",", ":", "{", "}", "[", "@",
     "if (x) {", "fn (y) {"}

Soup == UNION {[1..n -> SoupWords] : n \in 0..MaxWords}

\* the most let statements of one source
MaxLets == 3

LetNames == {"x", "y", "f"}

\* the values of the let statements: a literal, an infix expression, a
\* function whose body holds a let statement of its own
LetValues ==
    { <<"1">>, <<"a", "+", "b">>, <<"fn (y) {", "let", "z", "=", "y", ";", "}">> }

LetForms == {[name |-> n, value |-> v] : n \in LetNames, v \in LetValues}

\* let <name> = <value>;
LetWords(d) == <<"let", d.name, "=">> \o d.value \o <<";">>

LetDecls == UNION {[1..n -> LetForms] : n \in 0..MaxLets}

RECURSIVE LetSource(_)
\* the let statements of the declarations, one after the other
LetSource(ds) ==
    IF ds = <<>> THEN <<>> ELSE LetWords(Head(ds)) \o LetSource(Tail(ds))

StartsWith(ws, pre) == Len(pre) <= Len(ws) /\ SubSeq(ws, 1, Len(pre)) = pre

RECURSIVE DeclsOf(_)
\* the declarations whose let statements the source begins with
DeclsOf(ws) ==
    IF \E d \in LetForms : StartsWith(ws, LetWords(d))
    THEN The({ <<d>> \o DeclsOf(SubSeq(ws, Len(LetWords(d)) + 1, Len(ws)))
               : d \in {e \in LetForms : StartsWith(ws, LetWords(e))} })
    ELSE <<>>

\* the source is N let statements and nothing else
IsLetSource(ws) == LetSource(DeclsOf(ws)) = ws

LetSources == {LetSource(ds) : ds \in LetDecls}

Sources == WellFormed \cup Soup \cup LetSources

\* what a caller of lexer.New, parser.New, ParseProgram and Errors has at
\* the end, and where the parser then stands
Parsed(in) ==
    The({ [program |-> r.program, errors |-> r.errors, reads |-> r.p.reads,
           cut |-> r.p.cut, last |-> r.p.curToken.Type]
          : r \in {Parse(in)} })

ParseInit ==
    /\ LexIdle /\ EnvIdle /\ HashIdle /\ EvalIdle /\ BuiltinIdle /\ DriverIdle
    /\ ReplIdle
    /\ source \in Sources
    /\ parsed = NoParse
    /\ printed = <<>>
    /\ reparsed = NoParse

\* l := lexer.New(source); p := parser.New(l); program := p.ParseProgram()
ParseSource ==
    /\ parsed = NoParse
    /\ parsed' = Parsed(Src(source))
    /\ UNCHANGED <<source, printed, reparsed>>
    /\ UNCHANGED <<lexVars, envVars, hashVars, evalVars, builtinVars, driverVars,
                   replVars>>

\* program.String(), with o the order in which the ranges over the pairs
\* of its hash literals go
PrintProgram(o) ==
    /\ parsed # NoParse
    /\ parsed.errors = <<>>
    /\ Len(printed) < MaxPrints
    /\ printed' = Append(printed, NodeString(parsed.program, o))
    /\ UNCHANGED <<source, parsed, reparsed>>
    /\ UNCHANGED <<lexVars, envVars, hashVars, evalVars, builtinVars, driverVars,
                   replVars>>

\* the text String() returned first is parsed in its turn
ReparsePrinted ==
    /\ printed # <<>>
    /\ reparsed = NoParse
    /\ reparsed' = Parsed(printed[1])
    /\ UNCHANGED <<source, parsed, printed>>
    /\ UNCHANGED <<lexVars, envVars, hashVars, evalVars, builtinVars, driverVars,
                   replVars>>

ParseNext ==
    \/ ParseSource
    \/ \E o \in Orders : PrintProgram(o)
    \/ ReparsePrinted

ParseSpec == ParseInit /\ [][ParseNext]_vars

(***************************************************************************)
(* Claims about the parser and String()                                    *)
(***************************************************************************)
RECURSIVE Norm(_)
\* the node with the pairs of its hash literals as a set and without the
\* first token of its expression statements, so that two programs that
\* differ in the order of these pairs, or in the parentheses around a whole
\* expression, alone are the same
Norm(n) ==
    LET Each(list) == [i \in 1..Len(list) |-> Norm(list[i])]
    IN  CASE n.node = "nil" -> n
          [] n.node \in {"Program", "BlockStatement"} ->
                [n EXCEPT !.Statements = Each(@)]
          [] n.node = "LetStatement" -> [n EXCEPT !.Value = Norm(@)]
          [] n.node = "ReturnStatement" -> [n EXCEPT !.ReturnValue = Norm(@)]
          [] n.node = "ExpressionStatement" ->
                [n EXCEPT !.Expression = Norm(@), !.Token = NoToken]
          [] n.node = "PrefixExpression" -> [n EXCEPT !.Right = Norm(@)]
          [] n.node = "InfixExpression" ->
                [n EXCEPT !.Left = Norm(@), !.Right = Norm(@)]
          [] n.node = "IfExpression" ->
                [n EXCEPT !.Condition = Norm(@), !.Consequence = Norm(@),
                          !.Alternative = Norm(@)]
          [] n.node = "FunctionLiteral" -> [n EXCEPT !.Body = Norm(@)]
          [] n.node = "CallExpression" ->
                [n EXCEPT !.Function = Norm(@), !.Arguments = Each(@)]
          [] n.node = "ArrayLiteral" -> [n EXCEPT !.Elements = Each(@)]
          [] n.node = "IndexExpression" ->
                [n EXCEPT !.Left = Norm(@), !.Index = Norm(@)]
          [] n.node = "HashLiteral" ->
                [n EXCEPT !.Pairs =
                    {[Key |-> Norm(@[i].Key), Value |-> Norm(@[i].Value)] :
                        i \in 1..Len(@)}]
          [] OTHER -> n

\* C12: a well-formed source parses without errors, and the text String()
\* returns for its program parses without errors to an equivalent program,
\* whatever the kinds of its nodes.
C12_PrintedProgramParsesToSameProgram ==
    source \in WellFormed =>
        /\ parsed # NoParse => parsed.errors = <<>>
        /\ reparsed # NoParse =>
                /\ reparsed.errors = <<>>
                /\ Norm(reparsed.program) = Norm(parsed.program)

\* how the expressions of Mixed are grouped
Grouping ==
    (<<"-", "a", "*", "b">> :>
        <<"(", "(", "-", "a", ")", " ", "*", " ", "b", ")">>) @@
    (<<"!", "a", "==", "b">> :>
        <<"(", "(", "!", "a", ")", " ", "==", " ", "b", ")">>) @@
    (<<"a", "*", "-", "b">> :>
        <<"(", "a", " ", "*", " ", "(", "-", "b", ")", ")">>) @@
    (<<"-", "-", "a">> :> <<"(", "-", "(", "-", "a", ")", ")">>) @@
    (<<"a", "*", "b", "[", "c", "]">> :>
        <<"(", "a", " ", "*", " ", "(", "b", "[", "c", "]", ")", ")">>) @@
    (<<"a", "[", "b", "]", "*", "c">> :>
        <<"(", "(", "a", "[", "b", "]", ")", " ", "*", " ", "c", ")">>) @@
    (<<"-", "a", "[", "b", "]">> :>
        <<"(", "-", "(", "a", "[", "b", "]", ")", ")">>) @@
    (<<"-", "f", "(", "a", ")">> :> <<"(", "-", "f", "(", "a", ")", ")">>) @@
    (<<"a", "+", "f", "(", "b", ")", "*", "c">> :>
        <<"(", "a", " ", "+", " ", "(", "f", "(", "b", ")", " ", "*", " ", "c",
          ")", ")">>) @@
    (<<"f", "(", "a", ")", "[", "b", "]">> :>
        <<"(", "f", "(", "a", ")", "[", "b", "]", ")">>) @@
    (<<"a", "[", "b", "]", "(", "c", ")">> :>
        <<"(", "a", "[", "b", "]", ")", "(", "c", ")">>) @@
    (<<"(", "a", "+", "b", ")", "*", "c">> :>
        <<"(", "(", "a", " ", "+", " ", "b", ")", " ", "*", " ", "c", ")">>) @@
    (<<"a", "*", "(", "b", "+", "c", ")">> :>
        <<"(", "a", " ", "*", " ", "(", "b", " ", "+", " ", "c", ")", ")">>)

\* a op1 b op2 c groups to the left unless op2 is at a higher level than op1
GroupsLeft(o1, o2) == Precedence(o1) >= Precedence(o2)

ChainGrouping(o1, o2) ==
    IF GroupsLeft(o1, o2)
    THEN <<"(", "(", "a", " ", o1, " ", "b", ")", " ", o2, " ", "c", ")">>
    ELSE <<"(", "a", " ", o1, " ", "(", "b", " ", o2, " ", "c", ")", ")">>

\* the expression of the only statement of the program parsed
TheExpression == parsed.program.Statements[1].Expression

\* C13: the levels are ordered LOWEST < EQUALS < LESSGREATER < SUM < PRODUCT
\* < PREFIX < CALL < INDEX; a op1 b op2 c parses as ((a op1 b) op2 c) when
\* op1 and op2 are at the same level or op1 is at the higher one, and as
\* (a op1 (b op2 c)) when op2 is at the higher one; prefix operators, calls
\* and index expressions bind tighter than every infix operator; and the
\* text String() returns shows the grouping by its parentheses.
C13_PrecedenceAndLeftAssociativity ==
    /\ LOWEST < EQUALS /\ EQUALS < LESSGREATER /\ LESSGREATER < SUM
    /\ SUM < PRODUCT /\ PRODUCT < PREFIX /\ PREFIX < CALL /\ CALL < INDEX
    /\ (source \in Chains /\ parsed # NoParse) =>
            /\ parsed.errors = <<>>
            /\ Len(parsed.program.Statements) = 1
            /\ TheExpression.node = "InfixExpression"
            /\ IF GroupsLeft(source[2], source[4])
               THEN /\ TheExpression.Operator = source[4]
                    /\ TheExpression.Left.node = "InfixExpression"
                    /\ TheExpression.Left.Operator = source[2]
                    /\ TheExpression.Right.node = "Identifier"
               ELSE /\ TheExpression.Operator = source[2]
                    /\ TheExpression.Left.node = "Identifier"
                    /\ TheExpression.Right.node = "InfixExpression"
                    /\ TheExpression.Right.Operator = source[4]
    /\ \A i \in 1..Len(printed) :
            /\ source \in Chains =>
                    printed[i] = Text(ChainGrouping(source[2], source[4]))
            /\ source \in Mixed => printed[i] = Text(Grouping[source])

\* a - b + c has been parsed and printed as ((a - b) + c)
C13_Witness ==
    /\ source = <<"a", "-", "b", "+", "c">>
    /\ printed # <<>>
    /\ printed[1] = Text(<<"(", "(", "a", " ", "-", " ", "b", ")", " ", "+",
                           " ", "c", ")">>)

\* C14: ParseProgram completes for every input: after a parse error the
\* parser goes on reading tokens and reaches EOF within a number of reads
\* bounded by the length of the input, and returns a program and the errors
\* collected; it neither stops before EOF nor goes on reading without end,
\* also inside an unterminated block, argument list or hash literal.
C14_ParseProgramCompletes ==
    parsed # NoParse =>
        /\ parsed.program.node = "Program"
        /\ parsed.last = EOF
        /\ ~parsed.cut
        /\ parsed.reads <= Len(Src(source)) + 3
        /\ parsed.errors \in Seq(Seq(STRING))

\* a let statement without a name inside an unterminated block inside an
\* unterminated hash literal has been parsed: two errors or more, and EOF
C14_Witness ==
    /\ source = <<"{", "if (x) {", "let">>
    /\ parsed # NoParse
    /\ Len(parsed.errors) >= 2
    /\ parsed.last = EOF

\* the text of a program whose hash literals are printed in source order
InSourceOrder(n) == NodeString(n, [i \in 1..MaxPairs |-> i])

\* C19: String() visits the pairs of a hash literal in the order they were
\* written, so every call of String() on the same program returns the same
\* text, that with the pairs in source order.
C19_HashLiteralStringInSourceOrder ==
    \A i \in 1..Len(printed) :
        /\ printed[i] = printed[1]
        /\ printed[i] = InSourceOrder(parsed.program)

(***************************************************************************)
(* The drivers as a state machine: executeFile and evaluateExpression of   *)
(* the command, evalCmd of the REPL, and main of the profiling tool.       *)
(* Each parses its input, looks at the parser's errors and calls Eval.     *)
(***************************************************************************)

\* the most inputs one REPL session is given
MaxInputs == 2

\* the Go zero value of exitCode while the process runs
Running == 0 - 1

\* a bug: the errors of the parser are not looked at
HasErrorsIgnored(errors) == FALSE

\* len(p.Errors()) != 0
HasErrors(errors) == Len(errors) # 0

Paths == {"file", "file-debug", "expr", "repl", "repl-debug", "profile"}

\* the inputs of the drivers: some parse without errors, some do not, and
\* of these some have statements before the error
DriverInputs ==
    { <<"let", "x", "=", "1", ";">>, <<"x">>, <<"let", "y", "=", "x", ";">>,
      <<"puts", "(", "1", ")">>, <<"1", "+", "2">>, <<"x", "+", "str">>,
      <<"let", "x", "=", "2", ";", "let", "=", "3">>, <<"let", "=", "1">>,
      <<"puts", "(", "2", ")", ";", "let", "y">>,
      <<"let", "y", "=", "2", ";", ")">> }

\* the names main of the profiling tool binds in the environment it makes
profileBuiltins == {"len", "first", "last", "rest", "push", "puts"}

RECURSIVE SetAll(_, _, _)
\* for name, builtin := range builtins { env.Set(name, builtin) }
SetAll(h, e, names) ==
    IF names = {} THEN h
    ELSE LET name == CHOOSE n \in names : TRUE
         IN  SetAll(Set(h, e, name, Builtin(name)), e, names \ {name})

\* what a driver shows of its input
Report(kind, errors, output) ==
    [kind |-> kind, errors |-> errors, output |-> output]

\* printParserErrors(p.Errors()), formatParseErrors(p.Errors())
ParseErrorReport(errors) == Report("ParseError", errors, "")

\* the output the REPL shows for the value Eval returned
ResultReport(obj) ==
    IF obj = NilObj THEN Report("NoError", <<>>, "nil")
    ELSE IF Type(obj) = ERROR_OBJ THEN Report("RuntimeError", <<>>, Inspect(obj))
    ELSE Report("NoError", <<>>, Inspect(obj))

\* evaluator.Eval(program, env), env the environment the driver made
Evaluate(prog) == Eval(prog, 1, State0(heap, order))

DriverInit ==
    /\ LexIdle /\ HashIdle /\ BuiltinIdle /\ ReplIdle
    /\ path \in Paths
    /\ heap = IF path = "profile"
              THEN SetAll(NewEnvironment(<<>>).h, 1, profileBuiltins)
              ELSE NewEnvironment(<<>>).h
    /\ madeWith = <<>>
    /\ got = NoResult
    /\ sets = 0
    /\ EvalIdle
    /\ ParseIdle
    /\ rejected = <<>>
    /\ evalCalls = 0
    /\ reported = <<>>
    /\ exitCode = Running

\* the parser's errors are shown, and the process exits with code
Reject(in, errors, code) ==
    /\ rejected' = Append(rejected, in)
    /\ reported' = Append(reported, ParseErrorReport(errors))
    /\ exitCode' = code
    /\ UNCHANGED <<heap, out, evaluated, evalCalls>>

\* executeFile(filename, debug), the file read holding the text of in
executeFile(in, debug) ==
    /\ path = (IF debug THEN "file-debug" ELSE "file")
    /\ exitCode = Running
    /\ source' = in
    /\ parsed' = Parsed(Src(in))
    /\ IF HasErrors(parsed'.errors) THEN Reject(in, parsed'.errors, 1)
       ELSE \E r \in {Evaluate(parsed'.program)} :
                /\ evaluated' = r.val
                /\ heap' = r.st.heap
                /\ out' = out \o r.st.out
                /\ evalCalls' = evalCalls + 1
                /\ reported' = IF debug /\ r.val # NilObj
                               THEN Append(reported, Report("NoError", <<>>, Inspect(r.val)))
                               ELSE reported
                /\ exitCode' = 0
                /\ UNCHANGED rejected
    /\ UNCHANGED <<path, printed, reparsed, program, order, evalDone, log, applied>>
    /\ UNCHANGED <<madeWith, got, sets, lexVars, hashVars, builtinVars, replVars>>

\* evaluateExpression(expr)
evaluateExpression(in) ==
    /\ path = "expr"
    /\ exitCode = Running
    /\ source' = in
    /\ parsed' = Parsed(Src(in))
    /\ IF HasErrors(parsed'.errors) THEN Reject(in, parsed'.errors, 1)
       ELSE \E r \in {Evaluate(parsed'.program)} :
                /\ evaluated' = r.val
                /\ heap' = r.st.heap
                /\ out' = out \o r.st.out
                /\ evalCalls' = evalCalls + 1
                /\ reported' = IF r.val # NilObj
                               THEN Append(reported, Report("NoError", <<>>, Inspect(r.val)))
                               ELSE reported
                /\ exitCode' = 0
                /\ UNCHANGED rejected
    /\ UNCHANGED <<path, printed, reparsed, program, order, evalDone, log, applied>>
    /\ UNCHANGED <<madeWith, got, sets, lexVars, hashVars, builtinVars, replVars>>

\* the command evalCmd(input, env, debug) returns, run: both branches parse,
\* look at the errors and evaluate alike, and differ in what they print
evalCmd(in, debug) ==
    /\ path = (IF debug THEN "repl-debug" ELSE "repl")
    /\ Len(rejected) + evalCalls < MaxInputs
    /\ source' = in
    /\ parsed' = Parsed(Src(in))
    /\ IF HasErrors(parsed'.errors) THEN Reject(in, parsed'.errors, Running)
       ELSE \E r \in {Evaluate(parsed'.program)} :
                /\ evaluated' = r.val
                /\ heap' = r.st.heap
                /\ out' = out \o r.st.out
                /\ evalCalls' = evalCalls + 1
                /\ reported' = Append(reported, ResultReport(r.val))
                /\ UNCHANGED <<rejected, exitCode>>
    /\ UNCHANGED <<path, printed, reparsed, program, order, evalDone, log, applied>>
    /\ UNCHANGED <<madeWith, got, sets, lexVars, hashVars, builtinVars, replVars>>

\* main of the profiling tool from the making of the environment on; the
\* result of Eval is printed with result.Inspect(), which panics (exit code
\* 2) when Eval returned nil
profileMain(in) ==
    /\ path = "profile"
    /\ exitCode = Running
    /\ source' = in
    /\ parsed' = Parsed(Src(in))
    /\ IF HasErrors(parsed'.errors) THEN Reject(in, parsed'.errors, 1)
       ELSE \E r \in {Evaluate(parsed'.program)} :
                /\ evaluated' = r.val
                /\ heap' = r.st.heap
                /\ out' = out \o r.st.out
                /\ evalCalls' = evalCalls + 1
                /\ reported' = IF r.val # NilObj
                               THEN Append(reported, Report("NoError", <<>>, Inspect(r.val)))
                               ELSE reported
                /\ exitCode' = IF r.val # NilObj THEN 0 ELSE 2
                /\ UNCHANGED rejected
    /\ UNCHANGED <<path, printed, reparsed, program, order, evalDone, log, applied>>
    /\ UNCHANGED <<madeWith, got, sets, lexVars, hashVars, builtinVars, replVars>>

DriverNext ==
    \/ \E in \in DriverInputs, debug \in BOOLEAN : executeFile(in, debug)
    \/ \E in \in DriverInputs : evaluateExpression(in)
    \/ \E in \in DriverInputs, debug \in BOOLEAN : evalCmd(in, debug)
    \/ \E in \in DriverInputs : profileMain(in)

DriverSpec == DriverInit /\ [][DriverNext]_vars

\* C15: on no path does a driver call Eval on the program of an input the
\* parser reported errors for: the errors are shown, Eval is not called, and
\* the environment, the output and the last value are those of before.
C15_NoEvalAfterParseErrors ==
    [][Parsed(Src(source')).errors # <<>> =>
            /\ evalCalls' = evalCalls
            /\ heap' = heap
            /\ out' = out
            /\ evaluated' = evaluated
            /\ rejected' = Append(rejected, source')
            /\ reported' =
                    Append(reported, ParseErrorReport(Parsed(Src(source')).errors))]_vars

\* a REPL session has bound x with its first input, and its second input, a
\* program with a let statement for x followed by a parse error, was
\* rejected: x is still bound to 1
C15_Witness ==
    /\ path = "repl"
    /\ evalCalls = 1
    /\ rejected = << <<"let", "x", "=", "2", ";", "let", "=", "3">> >>
    /\ Get(heap, 1, "x") = [obj |-> Integer(1), ok |-> TRUE]

(***************************************************************************)
(* The built-in functions of the profiling tool as a state machine.  The   *)
(* Elements of an Array are a slice: here, the addresses of its cells in   *)
(* mem.  A call is applied to arguments taken among the values made so     *)
(* far, run, and its result dropped before the next call.                  *)
(***************************************************************************)

\* the largest number of arguments a built-in asks for (push)
MaxArity == 2

\* the most arrays allocated in one run
MaxMade == 3

\* the elements of the array a run starts with
InitialArrays == {<<>>, <<Integer(1)>>, <<Integer(1), Integer(2)>>}

\* where &object.Null{} may point: Null is a struct of size zero, and two
\* pointers to distinct variables of size zero may or may not be equal;
\* 0 stands for the address of the evaluator's NULL
NullAddrs == {0, 1}

\* &object.Null{}
NewNull(a) == IF a = 0 THEN NULL ELSE [kind |-> "Null", addr |-> a]

\* the elements of an array, read through its slice
Contents(m, array) == [i \in 1..Len(array.Elements) |-> m[array.Elements[i]]]

\* the cells of an array
Cells(array) == {array.Elements[i] : i \in 1..Len(array.Elements)}

\* make([]object.Object, n) followed by the writes of vals into it: the
\* memory after, and the slice
MakeSlice(m, vals) ==
    [mem |-> m \o vals, slice |-> [i \in 1..Len(vals) |-> Len(m) + i]]

wrongNumberOfArguments(n, want) ==
    Error(<<"wrong number of arguments. got=", n, ", want=", want>>)

notSupported(name, arg) ==
    Error(<<"argument to ", name, " not supported, got ", Type(arg)>>)

\* what a built-in gives back: its value, the memory and the lines written
Returns(val, m, lines) == [val |-> val, mem |-> m, written |-> lines]

profileLen(args, m, a) == Returns(builtinLen(args), m, <<>>)

profileFirst(args, m, a) ==
    IF Len(args) # 1 THEN Returns(wrongNumberOfArguments(Len(args), 1), m, <<>>)
    ELSE IF args[1].kind = "Array"
    THEN IF Len(args[1].Elements) > 0
         THEN Returns(m[args[1].Elements[1]], m, <<>>)
         ELSE Returns(NewNull(a), m, <<>>)
    ELSE Returns(notSupported("first", args[1]), m, <<>>)

\* a bug: the type of the argument is looked at before the number of
\* arguments
profileLastTypeFirst(args, m, a) ==
    IF Len(args) >= 1 /\ args[1].kind # "Array"
    THEN Returns(notSupported("last", args[1]), m, <<>>)
    ELSE IF Len(args) # 1
    THEN Returns(wrongNumberOfArguments(Len(args), 1), m, <<>>)
    ELSE IF Len(args[1].Elements) > 0
         THEN Returns(m[args[1].Elements[Len(args[1].Elements)]], m, <<>>)
         ELSE Returns(NewNull(a), m, <<>>)

profileLast(args, m, a) ==
    IF Len(args) # 1 THEN Returns(wrongNumberOfArguments(Len(args), 1), m, <<>>)
    ELSE IF args[1].kind = "Array"
    THEN IF Len(args[1].Elements) > 0
         THEN Returns(m[args[1].Elements[Len(args[1].Elements)]], m, <<>>)
         ELSE Returns(NewNull(a), m, <<>>)
    ELSE Returns(notSupported("last", args[1]), m, <<>>)

\* a bug: the result is the slice arg.Elements[1:length] itself, not a copy
profileRestShared(args, m, a) ==
    IF Len(args) # 1 THEN Returns(wrongNumberOfArguments(Len(args), 1), m, <<>>)
    ELSE IF args[1].kind = "Array"
    THEN IF Len(args[1].Elements) > 0
         THEN Returns(Array(Tail(args[1].Elements)), m, <<>>)
         ELSE Returns(NewNull(a), m, <<>>)
    ELSE Returns(notSupported("rest", args[1]), m, <<>>)

profileRest(args, m, a) ==
    IF Len(args) # 1 THEN Returns(wrongNumberOfArguments(Len(args), 1), m, <<>>)
    ELSE IF args[1].kind = "Array"
    THEN IF Len(args[1].Elements) > 0
         THEN LET new == MakeSlice(m, Tail(Contents(m, args[1])))
              IN  Returns(Array(new.slice), new.mem, <<>>)
         ELSE Returns(NewNull(a), m, <<>>)
    ELSE Returns(notSupported("rest", args[1]), m, <<>>)

profilePush(args, m, a) ==
    IF Len(args) # 2 THEN Returns(wrongNumberOfArguments(Len(args), 2), m, <<>>)
    ELSE IF args[1].kind = "Array"
    THEN LET new == MakeSlice(m, Append(Contents(m, args[1]), args[2]))
         IN  Returns(Array(new.slice), new.mem, <<>>)
    ELSE Returns(notSupported("push", args[1]), m, <<>>)

profilePuts(args, m, a) == Returns(NewNull(a), m, InspectAll(args))

\* builtins[name].Fn(args...)
profileBuiltin(name, args, m, a) ==
    CASE name = "len" -> profileLen(args, m, a)
      [] name = "first" -> profileFirst(args, m, a)
      [] name = "last" -> profileLast(args, m, a)
      [] name = "rest" -> profileRest(args, m, a)
      [] name = "push" -> profilePush(args, m, a)
      [] name = "puts" -> profilePuts(args, m, a)

NoCall == [name |-> "", args |-> <<>>, done |-> FALSE]

\* the values a call may be given: an integer, and the arrays made so far
Pool == {Integer(1)} \cup {made[i] : i \in 1..Len(made)}

ArgLists == UNION {[1..n -> Pool] : n \in 0..(MaxArity + 1)}

BuiltinInit ==
    /\ LexIdle /\ EnvIdle /\ HashIdle /\ EvalIdle /\ ParseIdle /\ DriverIdle
    /\ ReplIdle
    /\ mem \in InitialArrays
    /\ made = <<Array([i \in 1..Len(mem) |-> i])>>
    /\ ret = NilObj
    /\ call = NoCall
    /\ written = <<>>

\* the evaluator has a call of a built-in with its arguments evaluated
BuiltinApply(name, args) ==
    /\ call = NoCall
    /\ Len(made) < MaxMade
    /\ call' = [name |-> name, args |-> args, done |-> FALSE]
    /\ UNCHANGED <<mem, made, ret, written>>
    /\ UNCHANGED <<lexVars, envVars, hashVars, evalVars, parseVars, driverVars,
                   replVars>>

\* the body of the built-in runs
BuiltinRun ==
    /\ call # NoCall
    /\ ~call.done
    /\ \E a \in NullAddrs :
            LET r == profileBuiltin(call.name, call.args, mem, a)
            IN  /\ ret' = r.val
                /\ mem' = r.mem
                /\ written' = r.written
                /\ made' = IF r.val.kind = "Array" /\ r.val \notin Pool
                           THEN Append(made, r.val) ELSE made
    /\ call' = [call EXCEPT !.done = TRUE]
    /\ UNCHANGED <<lexVars, envVars, hashVars, evalVars, parseVars, driverVars,
                   replVars>>

\* the caller is done with the result
BuiltinDrop ==
    /\ call.done
    /\ call' = NoCall
    /\ ret' = NilObj
    /\ written' = <<>>
    /\ UNCHANGED <<mem, made>>
    /\ UNCHANGED <<lexVars, envVars, hashVars, evalVars, parseVars, driverVars,
                   replVars>>

BuiltinNext ==
    \/ \E name \in profileBuiltins, args \in ArgLists : BuiltinApply(name, args)
    \/ BuiltinRun
    \/ BuiltinDrop

BuiltinSpec == BuiltinInit /\ [][BuiltinNext]_vars

\* a step in which the body of a built-in runs
Ran == call # NoCall /\ ~call.done /\ call'.done

\* C16: push(a, x) and rest(a) do not modify a or any other array: every
\* array has after the call the slice and the elements it had before; the
\* array returned is made of cells allocated by the call, shared with no
\* array made before, and holds the elements of a followed by x (push) or
\* the elements of a but the first (rest).
C16_PushAndRestLeaveArgumentAlone ==
    [][(Ran /\ call.name \in {"push", "rest"}) =>
            /\ \A i \in 1..Len(made) :
                    /\ made'[i] = made[i]
                    /\ Contents(mem', made[i]) = Contents(mem, made[i])
            /\ ret'.kind = "Array" =>
                    /\ \A i \in 1..Len(made) : Cells(ret') \cap Cells(made[i]) = {}
                    /\ \A c \in Cells(ret') : c > Len(mem)
                    /\ Contents(mem', ret') =
                            IF call.name = "push"
                            THEN Append(Contents(mem, call.args[1]), call.args[2])
                            ELSE Tail(Contents(mem, call.args[1]))]_vars

\* the array [1, 2] was pushed onto, rest was called on the result, and the
\* three arrays are [1, 2], [1, 2, 1] and [2, 1]
C16_Witness ==
    /\ Len(made) = 3
    /\ call.name = "rest"
    /\ call.done
    /\ call.args = <<made[2]>>
    /\ ret = made[3]
    /\ Contents(mem, made[1]) = <<Integer(1), Integer(2)>>
    /\ Contents(mem, made[2]) = <<Integer(1), Integer(2), Integer(1)>>
    /\ Contents(mem, made[3]) = <<Integer(2), Integer(1)>>

\* C17: len, first, last and rest called with a number of arguments other
\* than 1, and push called with a number other than 2, return the Error
\* "wrong number of arguments. got=N, want=K", whatever the types of the
\* arguments; puts takes any number of arguments and returns a Null.
C17_ArityIsCheckedFirst ==
    [][Ran =>
            /\ (call.name \in {"len", "first", "last", "rest"}
                    /\ Len(call.args) # 1) =>
                    /\ ret' = Error(<<"wrong number of arguments. got=",
                                      Len(call.args), ", want=", 1>>)
                    /\ UNCHANGED <<mem, made>>
            /\ (call.name = "push" /\ Len(call.args) # 2) =>
                    /\ ret' = Error(<<"wrong number of arguments. got=",
                                      Len(call.args), ", want=", 2>>)
                    /\ UNCHANGED <<mem, made>>
            /\ call.name = "puts" =>
                    /\ Type(ret') = NULL_OBJ
                    /\ written' = InspectAll(call.args)]_vars

\* last was called with two integers, which it does not support, and
\* returned the error about the number of arguments
C17_Witness ==
    /\ call = [name |-> "last", args |-> <<Integer(1), Integer(1)>>, done |-> TRUE]
    /\ ret = Error(<<"wrong number of arguments. got=", 2, ", want=", 1>>)

\* C18: there is one Null: the Null a built-in returns (first, last and
\* rest of an empty array, and puts) is the evaluator's NULL.
C18_OneNull ==
    (call.done /\ Type(ret) = NULL_OBJ) => ret = NULL

(***************************************************************************)
(* Hash literals                                                           *)
(***************************************************************************)
\* the entries of the hash literal the program is made of
TheEntries == program.Statements[1].Expression.Pairs

\* C20: the entries of a hash literal are evaluated in source order, key
\* then value: the lines written by the entries come in the order of the
\* entries, and when entries fail the Error returned is that of the first
\* of them in source order.
C20_HashEntriesInSourceOrder ==
    (evalDone /\ program \in HashPrograms) =>
        IF TheEntries[1].Value.node = "Identifier"
        THEN evaluated = Error(<<"identifier not found: ", "u1">>)
        ELSE out = [i \in 1..Len(TheEntries) |-> ToString(i)]


(***************************************************************************)
(* Lexer properties: strings, illegal bytes, the end of the input, cursors *)
(***************************************************************************)
\* the index (0-based) of the first '"' of s at or after p, Len(s) if none
RECURSIVE QuoteEnd(_, _)
QuoteEnd(s, p) ==
    IF p < Len(s) /\ s[p + 1] # 34 THEN QuoteEnd(s, p + 1) ELSE p

\* the lexer after the call just made
nextLexer == LexerOf(input, position', readPosition', ch')

\* C21: when the current byte is '"', NextToken returns a STRING token whose
\* literal is the bytes strictly between that quote and the next '"' (or the
\* end of the input), and leaves the cursor just after the closing quote;
\* after an unterminated string the next token is EOF.
C21_StringIsBytesBetweenQuotes ==
    [][LET l == skipWhitespace(thisLexer)
           close == QuoteEnd(input, l.position + 1)
       IN  l.ch = 34 =>
            /\ tok'.Type = STRING_TOK
            /\ tok'.Literal = Slice(input, l.position + 1, close)
            /\ position' = close + 1
            /\ close = Len(input) => NextToken(nextLexer).tok.Type = EOF]_vars

\* the bytes some case of NextToken other than the last one takes
isHandled(c) ==
    \/ c \in {32, 9, 10, 13}
    \/ c \in {61, 33, 34, 0}
    \/ c \in DOMAIN singleCharTokens
    \/ isLetter(c)
    \/ isDigit(c)

\* C22: for a current byte that is not whitespace, an operator or delimiter,
\* a double quote, a digit, a letter, '_' or the end-of-input sentinel,
\* NextToken returns an ILLEGAL token whose literal is that one byte and
\* advances the cursor by exactly one byte.
C22_IllegalIsTheOneByte ==
    [][LET l == skipWhitespace(thisLexer)
       IN  ~isHandled(l.ch) =>
            /\ tok' = Token(ILLEGAL, <<l.ch>>)
            /\ position' = l.position + 1]_vars

\* C24: NextToken returns EOF only when the cursor is past the end of the
\* input, whatever bytes the input holds.
C24_EofOnlyPastTheEnd ==
    [][tok'.Type = EOF => position' >= Len(input)]_vars

\* C30: in every lexer state after New, readPosition = position + 1,
\* position <= len(input) + 1, the current byte is input[position] inside
\* the input and 0 outside, and the substring the next call takes in
\* readIdentifier, readNumber or readString lies within the input.
C30_CursorsStayInBounds ==
    /\ readPosition = position + 1
    /\ position <= Len(input) + 1
    /\ ch = (IF position < Len(input) THEN input[position + 1] ELSE 0)
    /\ LET l == skipWhitespace(thisLexer)
       IN  /\ isLetter(l.ch) =>
                /\ 0 <= l.position
                /\ l.position <= identifierEnd(l).position
                /\ identifierEnd(l).position <= Len(input)
           /\ isDigit(l.ch) =>
                /\ 0 <= l.position
                /\ l.position <= numberEnd(l).position
                /\ numberEnd(l).position <= Len(input)
           /\ l.ch = 34 =>
                /\ 0 <= l.position + 1
                /\ l.position + 1 <= stringEnd(l).position
                /\ stringEnd(l).position <= Len(input)

\* an unterminated string was read: the cursor is as far as it ever gets
C30_Witness ==
    /\ Len(input) = MaxLen
    /\ tok.Type = STRING_TOK
    /\ position = Len(input) + 1
    /\ ch = 0

(***************************************************************************)
(* Parser properties: let statements                                       *)
(***************************************************************************)
\* the statement is the let statement of the declaration
IsLetOf(stmt, d) ==
    /\ stmt.node = "LetStatement"
    /\ TokenLiteral(stmt) = Words["let"]
    /\ stmt.Name.node = "Identifier"
    /\ stmt.Name.Value = d.name
    /\ TokenLiteral(stmt.Name) = Words[d.name]

\* C23: parsing a source of N statements let <ident> = <expr>; gives a
\* program (not nil) of exactly N statements in source order, each a
\* LetStatement whose TokenLiteral is "let" and whose Name is an Identifier
\* with Value and TokenLiteral equal to the identifier as written.
C23_LetStatementsParse ==
    IsLetSource(source) /\ parsed # NoParse =>
        /\ parsed.program # NilNode
        /\ parsed.program.node = "Program"
        /\ Len(parsed.program.Statements) = Len(DeclsOf(source))
        /\ \A i \in 1..Len(DeclsOf(source)) :
                IsLetOf(parsed.program.Statements[i], DeclsOf(source)[i])

\* three let statements with three names, one holding a let of its own
C23_Witness ==
    /\ parsed # NoParse
    /\ source = LetSource(<< [name |-> "x", value |-> <<"1">>],
                             [name |-> "y", value |-> <<"a", "+", "b">>],
                             [name |-> "f", value |-> <<"fn (y) {", "let", "z",
                                                        "=", "y", ";", "}">>] >>)
    /\ Len(parsed.program.Statements) = 3

(***************************************************************************)
(* Calls with fewer or more arguments than parameters                      *)
(***************************************************************************)
\* the evaluations of the name made in environment e
UsesOf(name, e) ==
    {i \in 1..Len(log) :
        /\ log[i].node.node = "Identifier"
        /\ log[i].node.Value = name
        /\ log[i].env = e}

\* C25: in a call with fewer arguments than parameters the parameters
\* without an argument are left unbound and every reference to one of them
\* in the body evaluates to Error "identifier not found: <name>", whatever
\* the captured environment contains; arguments beyond the parameter count
\* do not change the result.
C25_MissingParametersAreNotFound ==
    evalDone =>
        /\ \A k \in 1..Len(applied) :
              LET a == applied[k]
              IN  \A j \in (Len(a.args) + 1)..Len(a.params) :
                    /\ a.params[j].Value \notin DOMAIN a.after[a.callEnv].store
                    /\ \A i \in UsesOf(a.params[j].Value, a.callEnv) :
                          log[i].val = Error(<<"identifier not found: ",
                                               a.params[j].Value>>)
        /\ \A outer \in BOOLEAN, n \in {"a", "b"}, nargs \in 3..MaxArgs :
              program = ArityProgram(outer, n, nargs) =>
                  evaluated = Eval(ArityProgram(outer, n, 2), 1,
                                   State0(NewEnvironment(<<>>).h, order)).val

(***************************************************************************)
(* The REPL as a state machine: the messages given to model.Update (key    *)
(* presses, spinner ticks, results of evaluations) and the evaluation      *)
(* commands Update returned, which run beside it.                          *)
(***************************************************************************)
\* the most lines typed in one session
MaxLines == 3

\* the lines typed: bindings, uses, a parse error, a runtime error after a
\* binding, an opening and a closing line, and brackets that do not match
ReplLines ==
    { <<"let", "x", "=", "1", ";">>, <<"x">>, <<"let", "=", "1">>,
      <<"let", "y", "=", "2", ";", "z">>, <<"y">>,
      <<"let", "f", "=", "fn (y) {">>, <<"y", "}">>, <<"(", "1", "]">> }

KeyTypes == {"runes", "enter", "esc", "ctrlc", "ctrld"}

\* a bug: only the number of open brackets is kept, not their kinds
isBalancedDepthOnly(text) ==
    LET opens(i) == Cardinality({j \in 1..i : text[j] \in {40, 123, 91}})
        closes(i) == Cardinality({j \in 1..i : text[j] \in {41, 125, 93}})
    IN  /\ \A i \in 1..Len(text) : closes(i) <= opens(i)
        /\ closes(Len(text)) = opens(Len(text))

RECURSIVE balancedFrom(_, _, _)
\* the loop of isBalanced from byte i on, and its return
balancedFrom(text, i, stack) ==
    IF i > Len(text) THEN Len(stack) = 0
    ELSE CASE text[i] \in {40, 123, 91} ->
                balancedFrom(text, i + 1, Append(stack, text[i]))
           [] text[i] = 41 ->
                IF Len(stack) = 0 \/ stack[Len(stack)] # 40 THEN FALSE
                ELSE balancedFrom(text, i + 1, SubSeq(stack, 1, Len(stack) - 1))
           [] text[i] = 125 ->
                IF Len(stack) = 0 \/ stack[Len(stack)] # 123 THEN FALSE
                ELSE balancedFrom(text, i + 1, SubSeq(stack, 1, Len(stack) - 1))
           [] text[i] = 93 ->
                IF Len(stack) = 0 \/ stack[Len(stack)] # 91 THEN FALSE
                ELSE balancedFrom(text, i + 1, SubSeq(stack, 1, Len(stack) - 1))
           [] OTHER -> balancedFrom(text, i + 1, stack)

isBalanced(text) == balancedFrom(text, 1, <<>>)

\* a bug: every evaluation gets an environment of its own
evalResultMsgFreshEnv(in, h, o) ==
    The({ IF HasErrors(p.errors)
          THEN [msg |-> ParseErrorReport(p.errors), heap |-> h, out |-> <<>>]
          ELSE The({ [msg |-> ResultReport(r.val), heap |-> h, out |-> r.st.out]
                     : r \in {Eval(p.program, 1,
                                   State0(NewEnvironment(<<>>).h, o))} })
          : p \in {Parsed(in)} })

\* what the command evalCmd(input, env, debug) does when it runs: the
\* message it sends, and what it makes of the environment and writes
evalResultMsg(in, h, o) ==
    The({ IF HasErrors(p.errors)
          THEN [msg |-> ParseErrorReport(p.errors), heap |-> h, out |-> <<>>]
          ELSE The({ [msg |-> ResultReport(r.val), heap |-> r.st.heap,
                      out |-> r.st.out]
                     : r \in {Eval(p.program, 1, State0(h, o))} })
          : p \in {Parsed(in)} })

\* if m.evaluating && msg.Type != tea.KeyCtrlC
ignoresKey(busy, type) == busy /\ type # "ctrlc"

ReplInit ==
    /\ LexIdle /\ HashIdle /\ EvalIdle /\ ParseIdle /\ BuiltinIdle /\ DriverIdle
    /\ heap = NewEnvironment(<<>>).h
    /\ madeWith = <<>>
    /\ got = NoResult
    /\ sets = 0
    /\ textInput = <<>>
    /\ history = <<>>
    /\ evaluating = FALSE
    /\ currentInput = <<>>
    /\ multilineBuffer = <<>>
    /\ isMultiline = FALSE
    /\ cmds = <<>>
    /\ msgs = <<>>
    /\ typed = 0
    /\ msg = ""
    /\ cmd = "init"

\* a bug: the evaluating flag is not set when the command is returned
StartEvaluationUnflagged(buffer) ==
    /\ evaluating' = evaluating
    /\ currentInput' = buffer
    /\ textInput' = <<>>
    /\ cmds' = Append(cmds, buffer)
    /\ cmd' = "eval"

\* Update sets evaluating and currentInput and returns evalCmd(buffer, m.env)
StartEvaluation(buffer) ==
    /\ evaluating' = TRUE
    /\ currentInput' = buffer
    /\ textInput' = <<>>
    /\ cmds' = Append(cmds, buffer)
    /\ cmd' = "eval"

\* case tea.KeyEnter of Update
UpdateEnter ==
    IF textInput = <<>>
    THEN IF isMultiline /\ multilineBuffer = <<>>
         THEN /\ isMultiline' = FALSE
              /\ cmd' = "nil"
              /\ UNCHANGED <<textInput, evaluating, currentInput,
                             multilineBuffer, cmds>>
         ELSE IF isMultiline
         THEN /\ StartEvaluation(multilineBuffer)
              /\ isMultiline' = FALSE
              /\ multilineBuffer' = <<>>
         ELSE /\ cmd' = "nil"
              /\ UNCHANGED <<textInput, evaluating, currentInput,
                             multilineBuffer, isMultiline, cmds>>
    ELSE IF isMultiline
    THEN IF isBalanced(multilineBuffer \o <<10>> \o textInput)
         THEN /\ StartEvaluation(multilineBuffer \o <<10>> \o textInput)
              /\ isMultiline' = FALSE
              /\ multilineBuffer' = <<>>
         ELSE /\ multilineBuffer' = multilineBuffer \o <<10>> \o textInput
              /\ textInput' = <<>>
              /\ cmd' = "nil"
              /\ UNCHANGED <<evaluating, currentInput, isMultiline, cmds>>
    ELSE IF ~isBalanced(textInput)
    THEN /\ isMultiline' = TRUE
         /\ multilineBuffer' = textInput
         /\ textInput' = <<>>
         /\ cmd' = "nil"
         /\ UNCHANGED <<evaluating, currentInput, cmds>>
    ELSE /\ StartEvaluation(textInput)
         /\ UNCHANGED <<multilineBuffer, isMultiline>>

\* case tea.KeyMsg of Update; runes are the bytes a "runes" key brings
UpdateKey(type, runes) ==
    /\ cmd # "quit"
    /\ type = "runes" => textInput = <<>> /\ typed < MaxLines
    /\ msg' = type
    /\ IF ignoresKey(evaluating, type)
       THEN /\ cmd' = "tick"
            /\ UNCHANGED <<textInput, evaluating, currentInput, multilineBuffer,
                           isMultiline, cmds, typed>>
       ELSE CASE type \in {"ctrlc", "esc", "ctrld"} ->
                    /\ cmd' = "quit"
                    /\ UNCHANGED <<textInput, evaluating, currentInput,
                                   multilineBuffer, isMultiline, cmds, typed>>
              [] type = "enter" -> UpdateEnter /\ UNCHANGED typed
              [] type = "runes" ->
                    /\ textInput' = IF evaluating THEN textInput
                                    ELSE textInput \o runes
                    /\ typed' = typed + 1
                    /\ cmd' = IF evaluating THEN "tick" ELSE "nil"
                    /\ UNCHANGED <<evaluating, currentInput, multilineBuffer,
                                   isMultiline, cmds>>
    /\ UNCHANGED <<history, msgs>>
    /\ UNCHANGED <<lexVars, envVars, hashVars, evalVars, parseVars, builtinVars,
                   driverVars>>

\* case spinner.TickMsg of Update
UpdateTick ==
    /\ cmd # "quit"
    /\ msg' = "tick"
    /\ cmd' = IF evaluating THEN "tick" ELSE "nil"
    /\ UNCHANGED <<textInput, history, evaluating, currentInput, multilineBuffer,
                   isMultiline, cmds, msgs, typed>>
    /\ UNCHANGED <<lexVars, envVars, hashVars, evalVars, parseVars, builtinVars,
                   driverVars>>

\* case evalResultMsg of Update
UpdateEvalResult ==
    /\ cmd # "quit"
    /\ msgs # <<>>
    /\ msg' = "result"
    /\ evaluating' = FALSE
    /\ history' = Append(history, [input |-> currentInput, output |-> Head(msgs)])
    /\ currentInput' = <<>>
    /\ msgs' = Tail(msgs)
    /\ cmd' = "nil"
    /\ UNCHANGED <<textInput, multilineBuffer, isMultiline, cmds, typed>>
    /\ UNCHANGED <<lexVars, envVars, hashVars, evalVars, parseVars, builtinVars,
                   driverVars>>

\* one of the commands Update returned runs and sends its message
RunEvalCmd ==
    /\ cmd # "quit"
    /\ \E i \in 1..Len(cmds) :
         \E r \in {evalResultMsg(cmds[i], heap, order)} :
            /\ heap' = r.heap
            /\ out' = out \o r.out
            /\ msgs' = Append(msgs, r.msg)
            /\ cmds' = SubSeq(cmds, 1, i - 1) \o SubSeq(cmds, i + 1, Len(cmds))
    /\ UNCHANGED <<textInput, history, evaluating, currentInput, multilineBuffer,
                   isMultiline, typed, msg, cmd>>
    /\ UNCHANGED <<madeWith, got, sets, program, order, evalDone, evaluated, log,
                   applied>>
    /\ UNCHANGED <<lexVars, hashVars, parseVars, builtinVars, driverVars>>

ReplNext ==
    \/ \E line \in ReplLines : UpdateKey("runes", Src(line))
    \/ \E type \in KeyTypes \ {"runes"} : UpdateKey(type, <<>>)
    \/ UpdateTick
    \/ UpdateEvalResult
    \/ RunEvalCmd

ReplSpec == ReplInit /\ [][ReplNext]_vars

(***************************************************************************)
(* REPL properties                                                         *)
(***************************************************************************)
\* the brackets, braces and parentheses of the text, in order
Brackets(text) == SelectSeq(text, LAMBDA c : c \in {40, 41, 91, 93, 123, 125})

\* an opening bracket directly followed by its closing bracket
IsPair(a, b) == <<a, b>> \in {<<40, 41>>, <<91, 93>>, <<123, 125>>}

RECURSIVE Cancel(_)
\* what is left when such pairs are taken out again and again
Cancel(bs) ==
    IF \E i \in 1..(Len(bs) - 1) : IsPair(bs[i], bs[i + 1])
    THEN The({ Cancel(SubSeq(bs, 1, i - 1) \o SubSeq(bs, i + 2, Len(bs)))
               : i \in {CHOOSE j \in 1..(Len(bs) - 1) : IsPair(bs[j], bs[j + 1])} })
    ELSE bs

\* every bracket of the text is closed by one of its kind, in order
Balanced(text) == Cancel(Brackets(text)) = <<>>

\* the buffer with the line of the text input added
Accumulated == multilineBuffer \o <<10>> \o textInput

\* C26: an unbalanced line is not evaluated when Enter is pressed but starts
\* multiline mode; in multiline mode the lines are accumulated, and exactly
\* one evaluation, of the whole accumulated text, starts as soon as the text
\* is balanced or an empty line is entered, after which multiline mode is
\* off and the buffer empty; while multiline mode is on the buffer is
\* non-empty and unbalanced.
C26_MultilineAccumulatesUntilBalanced ==
    /\ [](isMultiline => multilineBuffer # <<>> /\ ~Balanced(multilineBuffer))
    /\ [](~isMultiline => multilineBuffer = <<>>)
    /\ [][msg' = "enter" /\ ~evaluating /\ ~isMultiline
            /\ textInput # <<>> /\ ~Balanced(textInput) =>
                /\ cmds' = cmds
                /\ cmd' # "eval"
                /\ ~evaluating'
                /\ isMultiline'
                /\ multilineBuffer' = textInput]_vars
    /\ [][msg' = "enter" /\ ~evaluating /\ isMultiline =>
            IF textInput = <<>>
            THEN /\ cmds' = Append(cmds, multilineBuffer)
                 /\ cmd' = "eval"
                 /\ currentInput' = multilineBuffer
                 /\ ~isMultiline'
                 /\ multilineBuffer' = <<>>
            ELSE IF Balanced(Accumulated)
            THEN /\ cmds' = Append(cmds, Accumulated)
                 /\ cmd' = "eval"
                 /\ currentInput' = Accumulated
                 /\ ~isMultiline'
                 /\ multilineBuffer' = <<>>
            ELSE /\ cmds' = cmds
                 /\ cmd' # "eval"
                 /\ isMultiline'
                 /\ multilineBuffer' = Accumulated]_vars

\* an opening line, another line and a closing line were evaluated as one
\* text, once
C26_Witness ==
    /\ Len(history) = 1
    /\ history[1].input =
            Src(<<"let", "f", "=", "fn (y) {">>) \o <<10>> \o Src(<<"x">>)
                \o <<10>> \o Src(<<"y", "}">>)
    /\ history[1].output.kind = "NoError"
    /\ ~isMultiline
    /\ multilineBuffer = <<>>

\* C27: pressing Esc or Ctrl+C makes Update return the quit command in every
\* state of the REPL, also while an evaluation is in progress and in
\* multiline mode.
C27_EscAndCtrlCQuit ==
    msg \in {"esc", "ctrlc"} => cmd = "quit"

RECURSIVE SessionOutputs(_, _, _)
\* what is shown for the inputs when they are run one after the other, each
\* in the environment the ones before it have left
SessionOutputs(ins, h, o) ==
    IF ins = <<>> THEN <<>>
    ELSE The({ IF p.errors # <<>>
               THEN <<ParseErrorReport(p.errors)>> \o SessionOutputs(Tail(ins), h, o)
               ELSE The({ <<ResultReport(r.val)>>
                              \o SessionOutputs(Tail(ins), r.st.heap, o)
                          : r \in {Eval(p.program, 1, State0(h, o))} })
               : p \in {Parsed(Head(ins))} })

\* C28: all evaluations of a session get the same environment: what the
\* history shows for each input is what the input gives in the environment
\* that all earlier inputs of the session have left, whether they succeeded,
\* had parse errors or ended in a runtime error.
C28_OneEnvironmentPerSession ==
    [i \in 1..Len(history) |-> history[i].output]
        = SessionOutputs([i \in 1..Len(history) |-> history[i].input],
                         NewEnvironment(<<>>).h, order)

\* y was bound by an input that ended in a runtime error, the next input
\* had a parse error, and the third input sees y
C28_Witness ==
    /\ Len(history) = 3
    /\ history[1].input = Src(<<"let", "y", "=", "2", ";", "z">>)
    /\ history[1].output.kind = "RuntimeError"
    /\ history[2].output.kind = "ParseError"
    /\ history[3].input = Src(<<"y">>)
    /\ history[3].output = Report("NoError", <<>>, Inspect(Integer(2)))

\* C29: at most one evaluation is in flight: while evaluating is true no key
\* press starts another evaluation command, evaluating becomes false only
\* when the result message of the outstanding evaluation is handled, and
\* each result message appends exactly one history entry that pairs the
\* submitted input with its output.
C29_OneEvaluationInFlight ==
    /\ [](Len(cmds) + Len(msgs) <= 1)
    /\ [](evaluating <=> Len(cmds) + Len(msgs) = 1)
    /\ [](cmds # <<>> => cmds = <<currentInput>>)
    /\ [][evaluating /\ msgs' = msgs =>
            /\ cmds' = cmds
            /\ cmd' # "eval"
            /\ evaluating']_vars
    /\ [][evaluating /\ ~evaluating' =>
            /\ msg' = "result"
            /\ msgs # <<>>
            /\ msgs' = Tail(msgs)]_vars
    /\ [][history' # history \/ Len(msgs') < Len(msgs) =>
            /\ msgs # <<>>
            /\ msgs' = Tail(msgs)
            /\ history' = Append(history, [input |-> currentInput,
                                           output |-> Head(msgs)])]_vars

\* a second evaluation is in progress, the first one is in the history, and
\* Enter was pressed meanwhile and dropped
C29_Witness ==
    /\ evaluating
    /\ Len(history) = 1
    /\ cmds = <<currentInput>>
    /\ msg = "enter"
    /\ cmd = "tick"

====
